---- MODULE Spec2Model ----
(***************************************************************************)
(* CollageEditor (src/src/components/CollageEditor.tsx): the scene model,  *)
(* the pointer/keyboard interaction state machine and the undo/redo        *)
(* history, as a state machine.                                            *)
(*                                                                         *)
(* Reading conventions.                                                    *)
(*  - A handler is a pure operator on a record of the component's state.   *)
(*    Its first argument c is the closure: the values of layers, draws,    *)
(*    scale, offset, tool, ... of the render in which the handler was      *)
(*    created.  Reads of React state in the source are reads of c.         *)
(*    Functional updates setX(prev => ...) and writes to refs are applied  *)
(*    to the record s that is threaded through the handler.                *)
(*  - Pointer handlers, toolbar handlers are re-created on every render,   *)
(*    so their closure is the current state.  The window keydown handler   *)
(*    is re-created only when a dependency of its effect changes           *)
(*    (line 594); keyClosure holds what it captured.                       *)
(*  - null ids are NULL (0); an optional value is <<>> or <<v>>.           *)
(*  - Coordinates are integers; scale is counted in quarters (4 = 1.0).    *)
(*  - Style fields (stroke, fill, fillMode, thickness, dashed) are carried *)
(*    unchanged by every operation modelled here and are left out.         *)
(***************************************************************************)
EXTENDS Integers, Sequences, FiniteSets, TLC

VARIABLES
  layers, selectedLayerId, draws, selectedDrawId,   \* lines 78-81
  tool,                                             \* line 66
  polyTemp, dragStartRef, lastMoveRef,              \* lines 84-86
  cropBoxRef, cropDragRef,                          \* lines 89-90
  movingRef, draft, handleDragRef, layerResizeRef,  \* lines 93-105
  scale, offset, panningRef, panLastRef,            \* lines 60-63
  undoStack, redoStack,                             \* lines 108-109
  keyClosure,       \* layers/draws/scale/offset captured by onKeyDown
  pendingLoads,     \* image decodes in flight (img.onload not yet fired)
  revokedUrls,      \* object URLs passed to URL.revokeObjectURL
  availableImages,  \* URLs whose decoded image the user agent still holds
                    \* (the document's list of available images)
  nextId,           \* next value of crypto.randomUUID()
  mounted,          \* the component instance is alive
  ev,               \* history: the last event handled
  chk,              \* history: the scene before the action under observation
  ur,               \* history: the state before an undo that a redo follows
  left,             \* the events the session still has: gestures and commands
                    \* (acts), polygon vertex clicks (verts), undo and redo
                    \* commands (hist), toolbar tool changes (tools)
  imageEditor,      \* the state of ImageEditor (src/unnamed/part_000), the
                    \* single-image editor, as one record
  saved             \* what onSave last handed to the parent (line 662)

vars == <<layers, selectedLayerId, draws, selectedDrawId, tool, polyTemp,
          dragStartRef, lastMoveRef, cropBoxRef, cropDragRef, movingRef, draft,
          handleDragRef, layerResizeRef, scale, offset, panningRef, panLastRef,
          undoStack, redoStack, keyClosure, pendingLoads, revokedUrls,
          availableImages, nextId, mounted, ev, chk, ur, left, imageEditor, saved>>

----------------------------------------------------------------------------
(* Bounds of the model *)
MaxActs == 2
MaxPts == 2
MaxAdds == 1
MaxVerts == 3
MaxHist == 2
MaxTools == 1
EditActs == 1
EditHist == 1
MaxPushes == 62
HistOps == 1
PolyVerts == 4
CropTools == 2
ZoomActs == 2
ZoomHist == 2

(* Program constants *)
UndoLimit == 60
CanvasW == 480
CanvasH == 360
HandleTol == 10
MinSize == 10
AddMax == 300
AddMin == 40
ScaleMin == 1
ScaleMax == 16
ScaleOne == 4

NULL == 0
DraftId == -1
NaN == -1000000

Max(a, b) == IF a >= b THEN a ELSE b
Min(a, b) == IF a <= b THEN a ELSE b
Abs(a) == IF a >= 0 THEN a ELSE -a
Round(n, d) == (2 * n + d) \div (2 * d)
V(px, py) == [x |-> px, y |-> py]
Some(v) == <<v>>
None == <<>>

(* Inputs: pointer positions (client coordinates), decoded image sizes *)
(* Outside the initial layer, inside it, and on its south-east corner *)
Outside == V(10, 10)
Inside == V(100, 100)
Corner == V(408, 306)
Points == {Outside, Inside, Corner}
FileSizes == {V(400, 300)}
(* The north-west corner of the initial layer, and a point in its middle *)
TopLeft == V(72, 54)
Mid == V(300, 200)
(* Wheel events: pointer positions, and deltaY given by its factor        *)
(* Math.exp(-deltaY * 0.0015) as <<numerator, denominator>>               *)
WheelPoints == {V(0, 0), V(96, 64)}
WheelFactors == {<<1, 2>>, <<2, 1>>, <<1, 32>>, <<32, 1>>}
(* Hit-testing: the far corner of a shape drawn from Outside, and the      *)
(* points that are tested                                                  *)
HitCorner == V(50, 40)
HitProbes == {V(5, 5), V(10, 10), V(30, 25), V(50, 40), V(51, 40), V(80, 80), V(200, 200)}
(* A banner: its layer is 336 x 7 at (72, 176); a point inside it and its  *)
(* south-east corner                                                       *)
BannerSizes == {V(1000, 20)}
BannerInside == V(100, 180)
BannerCorner == V(408, 183)
AddSizes == {V(300, 300)}
RandomShift == {0}
Tools == {"pencil", "eraser", "line", "rect", "ellipse", "polygon", "arrow", "crop", "move"}
(* The toolbar buttons pressed in the model: ellipse and arrow run the code *)
(* paths of rect and line                                                 *)
ToolButtons == Tools \ {"ellipse", "arrow"}
ShapeTools == {"line", "rect", "ellipse", "arrow"}

clamp(v, a, b) == Max(a, Min(b, v))

----------------------------------------------------------------------------
(* The component's state as one record *)
Cur ==
  [layers |-> layers, selectedLayerId |-> selectedLayerId, draws |-> draws,
   selectedDrawId |-> selectedDrawId, tool |-> tool, polyTemp |-> polyTemp,
   dragStartRef |-> dragStartRef, lastMoveRef |-> lastMoveRef,
   cropBoxRef |-> cropBoxRef, cropDragRef |-> cropDragRef, movingRef |-> movingRef,
   draft |-> draft, handleDragRef |-> handleDragRef, layerResizeRef |-> layerResizeRef,
   scale |-> scale, offset |-> offset, panningRef |-> panningRef,
   panLastRef |-> panLastRef, undoStack |-> undoStack, redoStack |-> redoStack,
   revokedUrls |-> revokedUrls, availableImages |-> availableImages,
   nextId |-> nextId, mounted |-> mounted]

(* The closure of the window keydown handler: current tool, polyTemp and   *)
(* selection (they are dependencies of the effect), captured layers,       *)
(* draws, scale and offset.                                                *)
KeyCur ==
  [Cur EXCEPT !.layers = keyClosure.layers, !.draws = keyClosure.draws,
              !.scale = keyClosure.scale, !.offset = keyClosure.offset]

----------------------------------------------------------------------------
(* Snapshots *)
(* JSON.stringify writes a number that is NaN as null *)
jsonNumber(v) == IF v = NaN THEN NULL ELSE v

serializeLayers(ls) ==
  [i \in DOMAIN ls |->
     [id |-> ls[i].id, x |-> jsonNumber(ls[i].x), y |-> jsonNumber(ls[i].y),
      w |-> jsonNumber(ls[i].w), h |-> jsonNumber(ls[i].h),
      crop |-> ls[i].crop, src |-> ls[i].img.src]]

(* JSON.stringify of a draw object keeps every own field that is defined;  *)
(* absent fields (<<>>, FALSE) stay absent.                                *)
jsonDraw(d) ==
  [id |-> d.id, kind |-> d.kind, points |-> d.points, a |-> d.a, b |-> d.b,
   selected |-> d.selected, eraser |-> d.eraser]

snapshot(c) ==
  [layers |-> serializeLayers(c.layers),
   draws |-> [i \in DOMAIN c.draws |-> jsonDraw(c.draws[i])],
   scale |-> c.scale, offset |-> c.offset]

(* new Image(); img.src = src: a revoked object URL cannot be fetched; the *)
(* image decodes only if the user agent still holds it as available       *)
decodeImage(s, src) ==
  IF src \in s.revokedUrls /\ src \notin s.availableImages
    THEN [src |-> src, width |-> 0, height |-> 0]
    ELSE [src |-> src, width |-> src.w, height |-> src.h]

(* pushUndo that forgets to clear the redo stack *)
pushUndoKeepsRedo(s, c) ==
  LET pushed == Append(s.undoStack, snapshot(c))
  IN [s EXCEPT !.undoStack = IF Len(pushed) > UndoLimit THEN Tail(pushed) ELSE pushed]

(* pushUndo that pops the newest entry of a full stack instead of shifting *)
(* the oldest out                                                          *)
pushUndoDropsNewest(s, c) ==
  LET pushed == Append(s.undoStack, snapshot(c))
  IN [s EXCEPT !.undoStack = IF Len(pushed) > UndoLimit
                               THEN SubSeq(pushed, 1, UndoLimit) ELSE pushed,
               !.redoStack = <<>>]

pushUndo(s, c) ==
  LET pushed == Append(s.undoStack, snapshot(c))
  IN [s EXCEPT !.undoStack = IF Len(pushed) > UndoLimit THEN Tail(pushed) ELSE pushed,
               !.redoStack = <<>>]

(* restoreState that leaves the viewport offset as it is *)
restoreStateKeepsOffset(s, snap) ==
  [s EXCEPT
     !.layers = [i \in DOMAIN snap.layers |->
                   [id |-> snap.layers[i].id, img |-> decodeImage(s, snap.layers[i].src),
                    x |-> snap.layers[i].x, y |-> snap.layers[i].y,
                    w |-> snap.layers[i].w, h |-> snap.layers[i].h,
                    crop |-> snap.layers[i].crop, selected |-> FALSE]],
     !.draws = snap.draws,
     !.scale = snap.scale,
     !.selectedLayerId = NULL,
     !.selectedDrawId = NULL]

restoreState(s, snap) ==
  [s EXCEPT
     !.layers = [i \in DOMAIN snap.layers |->
                   [id |-> snap.layers[i].id, img |-> decodeImage(s, snap.layers[i].src),
                    x |-> snap.layers[i].x, y |-> snap.layers[i].y,
                    w |-> snap.layers[i].w, h |-> snap.layers[i].h,
                    crop |-> snap.layers[i].crop, selected |-> FALSE]],
     !.draws = snap.draws,
     !.scale = snap.scale,
     !.offset = snap.offset,
     !.selectedLayerId = NULL,
     !.selectedDrawId = NULL]

(* undo without the early return on an empty stack: the current snapshot  *)
(* goes to the redo stack and the selection is dropped                    *)
undoUnguarded(s, c) ==
  LET cur == snapshot(c)
      s1 == [s EXCEPT !.undoStack = SubSeq(@, 1, Len(@) - 1),
                      !.redoStack = Append(@, cur)]
  IN IF Len(s.undoStack) = 0
       THEN [s1 EXCEPT !.selectedLayerId = NULL, !.selectedDrawId = NULL]
     ELSE restoreState(s1, s.undoStack[Len(s.undoStack)])

undo(s, c) ==
  IF Len(s.undoStack) = 0 THEN s
  ELSE LET cur == snapshot(c)
           prev == s.undoStack[Len(s.undoStack)]
           s1 == [s EXCEPT !.undoStack = SubSeq(@, 1, Len(@) - 1),
                           !.redoStack = Append(@, cur)]
       IN restoreState(s1, prev)

redo(s, c) ==
  IF Len(s.redoStack) = 0 THEN s
  ELSE LET cur == snapshot(c)
           next == s.redoStack[Len(s.redoStack)]
           s1 == [s EXCEPT !.redoStack = SubSeq(@, 1, Len(@) - 1),
                           !.undoStack = Append(@, cur)]
       IN restoreState(s1, next)

----------------------------------------------------------------------------
(* Geometry and hit-testing *)
screenToWorld(c, pt) ==
  V(((pt.x - c.offset.x) * ScaleOne) \div c.scale,
    ((pt.y - c.offset.y) * ScaleOne) \div c.scale)

(* 10 / scale *)
tolerance(c) == (HandleTol * ScaleOne) \div c.scale

Rect(px, py, pw, ph) == [x |-> px, y |-> py, w |-> pw, h |-> ph]

SeqMin(f) == CHOOSE m \in {f[i] : i \in DOMAIN f} : \A i \in DOMAIN f : m <= f[i]
SeqMax(f) == CHOOSE m \in {f[i] : i \in DOMAIN f} : \A i \in DOMAIN f : m >= f[i]

(* bboxOf that takes a for the top-left corner and b for the bottom-right *)
bboxOfOrdered(D) ==
  IF D.kind \in {"path", "polygon"} THEN
    IF Len(D.points) = 0 THEN None
    ELSE LET xs == [i \in DOMAIN D.points |-> D.points[i].x]
             ys == [i \in DOMAIN D.points |-> D.points[i].y]
         IN Some(Rect(SeqMin(xs), SeqMin(ys), SeqMax(xs) - SeqMin(xs), SeqMax(ys) - SeqMin(ys)))
  ELSE IF D.kind \in {"line", "arrow", "rect", "ellipse"} THEN
    Some(Rect(D.a[1].x, D.a[1].y, D.b[1].x - D.a[1].x, D.b[1].y - D.a[1].y))
  ELSE None

bboxOf(D) ==
  IF D.kind \in {"path", "polygon"} THEN
    IF Len(D.points) = 0 THEN None
    ELSE LET xs == [i \in DOMAIN D.points |-> D.points[i].x]
             ys == [i \in DOMAIN D.points |-> D.points[i].y]
         IN Some(Rect(SeqMin(xs), SeqMin(ys), SeqMax(xs) - SeqMin(xs), SeqMax(ys) - SeqMin(ys)))
  ELSE IF D.kind \in {"line", "arrow"} THEN
    LET A == D.a[1]
        B == D.b[1]
    IN Some(Rect(Min(A.x, B.x), Min(A.y, B.y),
                 Max(A.x, B.x) - Min(A.x, B.x), Max(A.y, B.y) - Min(A.y, B.y)))
  ELSE IF D.kind \in {"rect", "ellipse"} THEN
    LET A == D.a[1]
        B == D.b[1]
    IN Some(Rect(Min(A.x, B.x), Min(A.y, B.y), Abs(B.x - A.x), Abs(B.y - A.y)))
  ELSE None

inRect(p, r) == p.x >= r.x /\ p.y >= r.y /\ p.x <= r.x + r.w /\ p.y <= r.y + r.h

NoHit == [type |-> "none", id |-> NULL]

hitTest(c, p) ==
  LET dh == {i \in DOMAIN c.draws :
               bboxOf(c.draws[i]) # None /\ inRect(p, bboxOf(c.draws[i])[1])}
      lh == {i \in DOMAIN c.layers : inRect(p, c.layers[i])}
      top(S) == CHOOSE i \in S : \A j \in S : j <= i
  IN IF dh # {} THEN [type |-> "draw", id |-> c.draws[top(dh)].id]
     ELSE IF lh # {} THEN [type |-> "layer", id |-> c.layers[top(lh)].id]
     ELSE NoHit

(* Array.prototype.find by id: the first match, or nothing *)
findById(seq, id) ==
  LET hits == {i \in DOMAIN seq : seq[i].id = id}
  IN IF hits = {} THEN None ELSE Some(seq[CHOOSE i \in hits : \A j \in hits : i <= j])

(* The first of the corners nw, ne, se, sw of r within tol of p *)
cornerAt(r, p, tol) ==
  LET near(cx, cy) == Abs(p.x - cx) <= tol /\ Abs(p.y - cy) <= tol
  IN IF near(r.x, r.y) THEN "nw"
     ELSE IF near(r.x + r.w, r.y) THEN "ne"
     ELSE IF near(r.x + r.w, r.y + r.h) THEN "se"
     ELSE IF near(r.x, r.y + r.h) THEN "sw"
     ELSE "none"

layerHandleAtPoint(L, p, tol) == cornerAt(L, p, tol)

----------------------------------------------------------------------------
(* Selection *)
flagOnly(seq, id) == [i \in DOMAIN seq |-> [seq[i] EXCEPT !.selected = (seq[i].id = id)]]
flagNone(seq) == [i \in DOMAIN seq |-> [seq[i] EXCEPT !.selected = FALSE]]

selectOnlyDraw(s, id) ==
  [s EXCEPT !.selectedDrawId = id, !.selectedLayerId = NULL,
            !.draws = flagOnly(@, id), !.layers = flagNone(@)]

selectOnlyLayer(s, id) ==
  [s EXCEPT !.selectedLayerId = id, !.selectedDrawId = NULL,
            !.layers = flagOnly(@, id), !.draws = flagNone(@)]

clearSelection(s) ==
  [s EXCEPT !.selectedDrawId = NULL, !.selectedLayerId = NULL,
            !.draws = flagNone(@), !.layers = flagNone(@)]

----------------------------------------------------------------------------
(* Draw objects.  kind "undef" is an object without kind, a and b. *)
DrawRec(id, kind, points, a, b, eraser) ==
  [id |-> id, kind |-> kind, points |-> points, a |-> a, b |-> b,
   selected |-> FALSE, eraser |-> eraser]

ensureCropBox(s, L) ==
  LET b0 == IF s.cropBoxRef = None THEN Rect(0, 0, L.w, L.h) ELSE s.cropBoxRef[1]
      bx == clamp(b0.x, 0, L.w - MinSize)
      by == clamp(b0.y, 0, L.h - MinSize)
      bw == clamp(b0.w, MinSize, L.w - bx)
      bh == clamp(b0.h, MinSize, L.h - by)
  IN [s EXCEPT !.cropBoxRef = Some(Rect(bx, by, bw, bh))]

(* The layer a pointer-down targets: the one hit, else the selected one *)
targetLayer(c, p) ==
  LET hit == hitTest(c, p)
  IN IF hit.type = "layer" THEN findById(c.layers, hit.id)
     ELSE IF c.selectedLayerId # NULL THEN findById(c.layers, c.selectedLayerId)
     ELSE None

(* onPointerDown, tool = crop (lines 385-401) *)
pointerDownCrop(s, c, p) ==
  LET L == targetLayer(c, p)
  IN IF L = None THEN s
     ELSE LET s1 == ensureCropBox(selectOnlyLayer(s, L[1].id), L[1])
              b == s1.cropBoxRef[1]
              local == V(p.x - L[1].x, p.y - L[1].y)
              handle == cornerAt(b, local, tolerance(c))
          IN IF handle # "none"
               THEN [s1 EXCEPT !.cropDragRef = Some([start |-> p, box |-> b, handle |-> handle])]
             ELSE IF b.w = 0 \/ b.h = 0
               THEN [s1 EXCEPT !.cropBoxRef = Some(Rect(local.x, local.y, 0, 0)),
                               !.cropDragRef = Some([start |-> p, box |-> Rect(local.x, local.y, 0, 0),
                                                     handle |-> "se"])]
             ELSE s1

(* onPointerDown, the layer-resize block (lines 403-415): [s, ret] *)
pointerDownResize(s, c, p, shiftKey) ==
  LET L == targetLayer(c, p)
  IN IF L = None THEN [s |-> s, ret |-> FALSE]
     ELSE LET s1 == selectOnlyLayer(s, L[1].id)
              h == layerHandleAtPoint(L[1], p, tolerance(c))
          IN IF h # "none"
               THEN [s |-> [s1 EXCEPT !.layerResizeRef =
                              Some([layerId |-> L[1].id, handle |-> h, start |-> p,
                                    orig |-> Rect(L[1].x, L[1].y, L[1].w, L[1].h),
                                    keepRatio |-> shiftKey])],
                     ret |-> TRUE]
               ELSE [s |-> s1, ret |-> FALSE]

(* onPointerDown, the endpoint-handle block (lines 417-429): [s, ret] *)
pointerDownEndpoint(s, c, p) ==
  LET hit == hitTest(c, p)
      D == IF hit.type = "draw" THEN findById(c.draws, hit.id) ELSE None
      near(u) == Abs(p.x - u.x) <= tolerance(c) /\ Abs(p.y - u.y) <= tolerance(c)
  IN IF D = None \/ D[1].kind \notin {"line", "arrow"} THEN [s |-> s, ret |-> FALSE]
     ELSE IF near(D[1].a[1])
       THEN [s |-> [selectOnlyDraw(s, D[1].id) EXCEPT
                      !.handleDragRef = Some([drawId |-> D[1].id, handle |-> "a"])],
             ret |-> TRUE]
     ELSE IF near(D[1].b[1])
       THEN [s |-> [selectOnlyDraw(s, D[1].id) EXCEPT
                      !.handleDragRef = Some([drawId |-> D[1].id, handle |-> "b"])],
             ret |-> TRUE]
     ELSE [s |-> s, ret |-> FALSE]

(* onPointerDown, drawing tools and select/move (lines 431-455) *)
pointerDownTool(s, c, p) ==
  IF c.tool = "eraser" THEN
    [pushUndo(s, c) EXCEPT
       !.draws = Append(@, DrawRec(s.nextId, "path", <<p>>, None, None, TRUE)),
       !.nextId = @ + 1,
       !.selectedDrawId = s.nextId,
       !.dragStartRef = Some(p), !.lastMoveRef = Some(p)]
  ELSE IF c.tool = "pencil" THEN
    [pushUndo(s, c) EXCEPT
       !.draws = Append(@, DrawRec(s.nextId, "path", <<p>>, None, None, FALSE)),
       !.nextId = @ + 1,
       !.selectedDrawId = s.nextId, !.selectedLayerId = NULL,
       !.dragStartRef = Some(p), !.lastMoveRef = Some(p)]
  ELSE IF c.tool \in ShapeTools THEN
    [pushUndo(s, c) EXCEPT
       !.dragStartRef = Some(p), !.lastMoveRef = Some(p),
       !.selectedDrawId = NULL, !.selectedLayerId = NULL]
  ELSE IF c.tool = "polygon" THEN
    [pushUndo(s, c) EXCEPT
       !.polyTemp = Append(@, p),
       !.selectedDrawId = NULL, !.selectedLayerId = NULL]
  ELSE
    LET hit == hitTest(c, p)
    IN IF hit.type = "draw" THEN
         [selectOnlyDraw(s, hit.id) EXCEPT
            !.movingRef = Some([start |-> p, origDraw |-> findById(c.draws, hit.id),
                                origLayer |-> None])]
       ELSE IF hit.type = "layer" THEN
         [selectOnlyLayer(s, hit.id) EXCEPT
            !.movingRef = Some([start |-> p, origDraw |-> None,
                                origLayer |-> findById(c.layers, hit.id)])]
       ELSE clearSelection(s)

onPointerDown(c, e) ==
  LET p == screenToWorld(c, e.pt)
  IN IF c.panningRef THEN [c EXCEPT !.panLastRef = e.pt]
     ELSE IF c.tool = "crop" THEN pointerDownCrop(c, c, p)
     ELSE LET r1 == pointerDownResize(c, c, p, e.shiftKey)
          IN IF r1.ret THEN r1.s
             ELSE LET r2 == pointerDownEndpoint(r1.s, c, p)
                  IN IF r2.ret THEN r2.s ELSE pointerDownTool(r2.s, c, p)

----------------------------------------------------------------------------
(* onPointerMove *)
cornerResizeCrop(box, handle, dx, dy) ==
  IF handle = "nw" THEN Rect(box.x + dx, box.y + dy, box.w - dx, box.h - dy)
  ELSE IF handle = "ne" THEN Rect(box.x, box.y + dy, box.w + dx, box.h - dy)
  ELSE IF handle = "se" THEN Rect(box.x, box.y, box.w + dx, box.h + dy)
  ELSE Rect(box.x + dx, box.y, box.w - dx, box.h + dy)

(* lines 467-479; a missing layer makes L.w throw: the handler changes nothing *)
pointerMoveCrop(s, c, p) ==
  LET L == findById(c.layers, c.selectedLayerId)
      d == s.cropDragRef[1]
      n == cornerResizeCrop(d.box, d.handle, p.x - d.start.x, p.y - d.start.y)
      nx == clamp(n.x, 0, L[1].w - MinSize)
      ny == clamp(n.y, 0, L[1].h - MinSize)
      nw == clamp(n.w, MinSize, L[1].w - nx)
      nh == clamp(n.h, MinSize, L[1].h - ny)
  IN IF L = None THEN s
     ELSE [s EXCEPT !.cropBoxRef = Some(Rect(nx, ny, nw, nh))]

(* lines 482-490 *)
pointerMoveEndpoint(s, p) ==
  LET h == s.handleDragRef[1]
      upd(d) == IF d.id # h.drawId THEN d
                ELSE IF d.kind \notin {"line", "arrow"} THEN d
                ELSE IF h.handle = "a" THEN [d EXCEPT !.a = Some(V(p.x, p.y))]
                ELSE [d EXCEPT !.b = Some(V(p.x, p.y))]
  IN [s EXCEPT !.draws = [i \in DOMAIN @ |-> upd(@[i])]]

(* applyCorner (lines 499-507).  aspect = orig.w / orig.h || 1; the        *)
(* quotient ww / aspect is floored to keep coordinates integral.  No layer *)
(* of the sessions below has h = 0 (an infinite aspect).                   *)
applyCorner(orig, keepRatio, signX, signY, dx, dy) ==
  LET an == IF orig.w = 0 \/ orig.h = 0 THEN 1 ELSE orig.w
      ad == IF orig.w = 0 \/ orig.h = 0 THEN 1 ELSE orig.h
      ww0 == orig.w + signX * dx
      hh0 == orig.h + signY * dy
      wDrives == keepRatio /\ Abs(ww0 - orig.w) > Abs(hh0 - orig.h)
      ww == IF keepRatio /\ ~wDrives THEN (hh0 * an) \div ad ELSE ww0
      hh == IF wDrives THEN (ww0 * ad) \div an ELSE hh0
  IN Rect(IF signX < 0 THEN orig.x + (orig.w - ww) ELSE orig.x,
          IF signY < 0 THEN orig.y + (orig.h - hh) ELSE orig.y,
          Max(MinSize, ww), Max(MinSize, hh))

(* lines 493-517 *)
pointerMoveResize(s, p) ==
  LET r == s.layerResizeRef[1]
      dx == p.x - r.start.x
      dy == p.y - r.start.y
      n == IF r.handle = "se" THEN applyCorner(r.orig, r.keepRatio, 1, 1, dx, dy)
           ELSE IF r.handle = "ne" THEN applyCorner(r.orig, r.keepRatio, 1, -1, dx, dy)
           ELSE IF r.handle = "sw" THEN applyCorner(r.orig, r.keepRatio, -1, 1, dx, dy)
           ELSE applyCorner(r.orig, r.keepRatio, -1, -1, dx, dy)
      upd(L) == IF L.id # r.layerId THEN L
                ELSE [L EXCEPT !.x = n.x, !.y = n.y, !.w = n.w, !.h = n.h]
  IN [s EXCEPT !.layers = [i \in DOMAIN @ |-> upd(@[i])]]

shift(pt, d) == V(pt.x + d.x, pt.y + d.y)

(* moveObj (lines 609-618); an object without a kind gives undefined *)
moveObj(base, d) ==
  IF base.kind \in {"path", "polygon"}
    THEN [base EXCEPT !.points = [i \in DOMAIN @ |-> shift(@[i], d)]]
    ELSE [base EXCEPT !.a = Some(shift(@[1], d)), !.b = Some(shift(@[1], d))]

(* lines 536-546.  The moved draw object is rebuilt from the object        *)
(* captured at pointer-down.  An undefined element of draws makes the next *)
(* render throw, which unmounts the component.                             *)
pointerMoveMoving(s, c, p) ==
  LET m == s.movingRef[1]
      d == V(p.x - m.start.x, p.y - m.start.y)
  IN IF c.selectedDrawId # NULL THEN
       IF \E i \in DOMAIN s.draws : s.draws[i].id = c.selectedDrawId THEN
         IF m.origDraw = None \/ m.origDraw[1].kind = "undef"
           THEN [s EXCEPT !.mounted = FALSE]
           ELSE [s EXCEPT !.draws = [i \in DOMAIN @ |->
                   IF @[i].id # c.selectedDrawId THEN @[i] ELSE moveObj(m.origDraw[1], d)]]
       ELSE s
     ELSE IF c.selectedLayerId # NULL THEN
       IF m.origLayer = None
         THEN [s EXCEPT !.layers = [i \in DOMAIN @ |->
                 IF @[i].id # c.selectedLayerId THEN @[i]
                 ELSE [@[i] EXCEPT !.x = NaN, !.y = NaN]]]
         ELSE [s EXCEPT !.layers = [i \in DOMAIN @ |->
                 IF @[i].id # c.selectedLayerId THEN @[i]
                 ELSE [@[i] EXCEPT !.x = m.origLayer[1].x + d.x,
                                   !.y = m.origLayer[1].y + d.y]]]
     ELSE s

(* lines 520-523; spreading the points of an object that has none throws   *)
(* inside the updater: the render fails and the component unmounts.        *)
pointerMoveStroke(s, c, p) ==
  LET hit == {i \in DOMAIN s.draws : s.draws[i].id = c.selectedDrawId}
  IN IF \E i \in hit : s.draws[i].kind \notin {"path", "polygon"}
       THEN [s EXCEPT !.mounted = FALSE, !.lastMoveRef = Some(p)]
       ELSE [s EXCEPT !.draws = [i \in DOMAIN @ |->
                        IF i \in hit THEN [@[i] EXCEPT !.points = Append(@, p)] ELSE @[i]],
                      !.lastMoveRef = Some(p)]

(* lines 524-533 *)
pointerMoveDraft(s, c, p) ==
  [s EXCEPT !.draft = Some(DrawRec(DraftId, c.tool, <<>>, s.dragStartRef, Some(p), FALSE)),
            !.lastMoveRef = Some(p)]

onPointerMove(c, e) ==
  LET p == screenToWorld(c, e.pt)
  IN IF c.panningRef THEN
       [c EXCEPT !.panLastRef = e.pt,
                 !.offset = V(@.x + (e.pt.x - c.panLastRef.x), @.y + (e.pt.y - c.panLastRef.y))]
     ELSE IF c.tool = "crop" /\ c.cropDragRef # None /\ c.selectedLayerId # NULL
       THEN pointerMoveCrop(c, c, p)
     ELSE IF c.handleDragRef # None THEN pointerMoveEndpoint(c, p)
     ELSE IF c.layerResizeRef # None THEN pointerMoveResize(c, p)
     ELSE IF c.tool \in {"pencil", "eraser"} /\ c.dragStartRef # None
       THEN pointerMoveStroke(c, c, p)
     ELSE IF c.dragStartRef # None /\ c.tool \in ShapeTools THEN pointerMoveDraft(c, c, p)
     ELSE IF c.movingRef # None THEN pointerMoveMoving(c, c, p)
     ELSE c

----------------------------------------------------------------------------
(* finalizePointer (lines 549-568): pointer-up, -leave and -cancel *)
finalizeBranch(c) ==
  IF c.handleDragRef # None THEN "endpoint"
  ELSE IF c.layerResizeRef # None THEN "resize"
  ELSE IF c.tool = "crop" THEN "crop"
  ELSE IF c.dragStartRef # None /\ c.lastMoveRef # None /\ c.tool \in ShapeTools THEN "shape"
  ELSE IF c.dragStartRef # None /\ c.tool \in {"pencil", "eraser"} THEN "stroke"
  ELSE IF c.movingRef # None THEN "moving"
  ELSE "none"

finalizeShape(c) ==
  LET finalized == IF c.draft = None
                     THEN DrawRec(c.nextId, "undef", <<>>, None, None, FALSE)
                     ELSE [c.draft[1] EXCEPT !.id = c.nextId]
  IN [c EXCEPT !.draws = Append(@, finalized), !.nextId = @ + 1,
               !.selectedDrawId = c.nextId, !.selectedLayerId = NULL,
               !.draft = None, !.dragStartRef = None, !.lastMoveRef = None]

finalizePointer(c) ==
  LET br == finalizeBranch(c)
  IN IF br = "endpoint" THEN pushUndo([c EXCEPT !.handleDragRef = None], c)
     ELSE IF br = "resize" THEN pushUndo([c EXCEPT !.layerResizeRef = None], c)
     ELSE IF br = "crop" THEN [c EXCEPT !.cropDragRef = None]
     ELSE IF br = "shape" THEN finalizeShape(c)
     ELSE IF br = "stroke" THEN [c EXCEPT !.dragStartRef = None, !.lastMoveRef = None]
     ELSE IF br = "moving" THEN pushUndo([c EXCEPT !.movingRef = None], c)
     ELSE c

----------------------------------------------------------------------------
(* Window keydown/keyup (lines 574-594).  s holds the refs and the state   *)
(* being updated, c is the closure the handler captured.                   *)
Keys == {"Space", "CtrlZ", "CtrlShiftZ", "CtrlY", "Enter", "Escape", "Delete"}

keyPolygonCommit(s, c) ==
  [pushUndo(s, c) EXCEPT
     !.draws = Append(@, DrawRec(s.nextId, "polygon", c.polyTemp, None, None, FALSE)),
     !.nextId = @ + 1,
     !.polyTemp = <<>>,
     !.selectedDrawId = s.nextId, !.selectedLayerId = NULL]

keyDelete(s, c) ==
  LET notDraw(d) == d.id # c.selectedDrawId
      notLayer(L) == L.id # c.selectedLayerId
      s1 == IF c.selectedDrawId # NULL
              THEN [pushUndo(s, c) EXCEPT !.draws = SelectSeq(@, notDraw),
                                          !.selectedDrawId = NULL]
              ELSE s
  IN IF c.selectedLayerId # NULL
       THEN [pushUndo(s1, c) EXCEPT !.layers = SelectSeq(@, notLayer),
                                    !.selectedLayerId = NULL]
       ELSE s1

(* onKeyDown whose polygon commit accepts two accumulated points *)
onKeyDownCommitsTwo(s, c, k) ==
  LET s1 == IF k = "Space" THEN [s EXCEPT !.panningRef = TRUE] ELSE s
      s2 == IF k \in {"CtrlZ", "CtrlShiftZ"} THEN undo(s1, c) ELSE s1
      s3 == IF k \in {"CtrlShiftZ", "CtrlY"} THEN redo(s2, c) ELSE s2
      s4 == IF c.tool = "polygon" /\ k = "Enter" /\ Len(c.polyTemp) >= 2
              THEN keyPolygonCommit(s3, c) ELSE s3
      s5 == IF c.tool = "polygon" /\ k = "Escape" THEN [s4 EXCEPT !.polyTemp = <<>>] ELSE s4
  IN IF k = "Delete" THEN keyDelete(s5, c) ELSE s5

onKeyDown(s, c, k) ==
  LET s1 == IF k = "Space" THEN [s EXCEPT !.panningRef = TRUE] ELSE s
      s2 == IF k \in {"CtrlZ", "CtrlShiftZ"} THEN undo(s1, c) ELSE s1
      s3 == IF k \in {"CtrlShiftZ", "CtrlY"} THEN redo(s2, c) ELSE s2
      s4 == IF c.tool = "polygon" /\ k = "Enter" /\ Len(c.polyTemp) >= 3
              THEN keyPolygonCommit(s3, c) ELSE s3
      s5 == IF c.tool = "polygon" /\ k = "Escape" THEN [s4 EXCEPT !.polyTemp = <<>>] ELSE s4
  IN IF k = "Delete" THEN keyDelete(s5, c) ELSE s5

onKeyUp(s, k) == IF k = "Space" THEN [s EXCEPT !.panningRef = FALSE] ELSE s

(* The window keydown listener of Modal (src/src/components/Modal.tsx,     *)
(* lines 9-11): Escape calls onClose, which is App's onCancel (src/src/    *)
(* App.tsx, lines 26-30, 76): isOpen becomes false and the editor is no    *)
(* longer rendered                                                         *)
modalOnKey(s, k) == IF k = "Escape" THEN [s EXCEPT !.mounted = FALSE] ELSE s

----------------------------------------------------------------------------
(* onWheel (lines 596-607).  scale is held in units of 1 / ScaleOne, so    *)
(* the limits 0.25 and 4 are ScaleMin and ScaleMax.  With world =          *)
(* (mouse - offset) / scale, the new offset is offset + (mouse - (world *  *)
(* next + offset)); positions are whole numbers, the quotient is rounded.  *)
(* The next scale without the upper limit *)
wheelNextNoCeiling(c, factor) ==
  IF c.scale * factor[1] <= ScaleMin * factor[2] THEN ScaleMin
  ELSE Round(c.scale * factor[1], factor[2])

wheelNext(c, factor) ==
  IF c.scale * factor[1] <= ScaleMin * factor[2] THEN ScaleMin
  ELSE IF c.scale * factor[1] >= ScaleMax * factor[2] THEN ScaleMax
  ELSE Round(c.scale * factor[1], factor[2])

(* onWheel whose offset is computed from the scale before clamping *)
onWheelUnclamped(c, e) ==
  LET next == wheelNext(c, e.factor)
      after(m, o) == Round((m - o) * c.scale * e.factor[1], c.scale * e.factor[2]) + o
  IN [c EXCEPT !.scale = next,
               !.offset = V(@.x + (e.pt.x - after(e.pt.x, c.offset.x)),
                            @.y + (e.pt.y - after(e.pt.y, c.offset.y)))]

(* onWheel that takes a checkpoint first *)
onWheelCheckpoint(c, e) ==
  LET next == wheelNext(c, e.factor)
      after(m, o) == Round((m - o) * next, c.scale) + o
  IN [pushUndo(c, c) EXCEPT
        !.scale = next,
        !.offset = V(@.x + (e.pt.x - after(e.pt.x, c.offset.x)),
                     @.y + (e.pt.y - after(e.pt.y, c.offset.y)))]

onWheel(c, e) ==
  LET next == wheelNext(c, e.factor)
      after(m, o) == Round((m - o) * next, c.scale) + o
  IN [c EXCEPT !.scale = next,
               !.offset = V(@.x + (e.pt.x - after(e.pt.x, c.offset.x)),
                            @.y + (e.pt.y - after(e.pt.y, c.offset.y)))]

----------------------------------------------------------------------------
(* Toolbar (lines 645, 669-677, 729-739) *)
clearAll(c) == [pushUndo(c, c) EXCEPT !.draws = <<>>]

toolButton(c, t) ==
  IF t = "polygon" THEN [c EXCEPT !.tool = t, !.polyTemp = <<>>]
  ELSE IF t = "crop" THEN [c EXCEPT !.tool = t, !.cropBoxRef = None, !.cropDragRef = None]
  ELSE [c EXCEPT !.tool = t]

cancelCrop(c) ==
  [c EXCEPT !.cropBoxRef = None, !.cropDragRef = None, !.selectedLayerId = NULL,
            !.tool = "move"]

----------------------------------------------------------------------------
(* Image loading (lines 129-163, 623-643) and crop (lines 330-347) *)
BlobUrl(n, size) == [scheme |-> "blob", n |-> n, w |-> size.x, h |-> size.y]
DataUrl(n, pw, ph) == [scheme |-> "data", n |-> n, w |-> pw, h |-> ph]

(* The render at mount, whose closure the load effect keeps *)
MountState ==
  [layers |-> <<>>, draws |-> <<>>, scale |-> ScaleOne, offset |-> V(0, 0)]

(* makeLayerFromImage, then URL.revokeObjectURL (lines 130-138, 152) *)
makeLayerFromImage(s, url) ==
  LET iw == url.w
      ih == url.h
      byW == CanvasW * ih <= CanvasH * iw
      w == IF byW THEN Round(7 * CanvasW, 10) ELSE Round(iw * 7 * CanvasH, 10 * ih)
      h == IF byW THEN Round(ih * 7 * CanvasW, 10 * iw) ELSE Round(7 * CanvasH, 10)
      L == [id |-> s.nextId, img |-> [src |-> url, width |-> iw, height |-> ih],
            x |-> (CanvasW - w) \div 2, y |-> (CanvasH - h) \div 2, w |-> w, h |-> h,
            crop |-> None, selected |-> FALSE]
      s1 == [s EXCEPT !.layers = <<L>>, !.draws = <<>>, !.nextId = @ + 1,
                      !.selectedLayerId = NULL, !.selectedDrawId = NULL,
                      !.undoStack = <<>>, !.redoStack = <<>>]
  IN [pushUndo(s1, MountState) EXCEPT !.revokedUrls = @ \cup {url},
                                      !.availableImages = @ \cup {url}]

(* img.onload of addImages (lines 630-640) *)
addImageLoaded(s, url, rx, ry) ==
  LET iw == url.w
      ih == url.h
      big == Max(iw, ih)
      w == Max(AddMin, IF big <= AddMax THEN iw ELSE Round(iw * AddMax, big))
      h == Max(AddMin, IF big <= AddMax THEN ih ELSE Round(ih * AddMax, big))
      L == [id |-> s.nextId, img |-> [src |-> url, width |-> iw, height |-> ih],
            x |-> (CanvasW - w) \div 2 + rx, y |-> (CanvasH - h) \div 2 + ry,
            w |-> w, h |-> h, crop |-> None, selected |-> FALSE]
  IN [s EXCEPT !.layers = Append(@, L), !.nextId = @ + 1,
               !.selectedLayerId = s.nextId, !.selectedDrawId = NULL,
               !.revokedUrls = @ \cup {url},
               !.availableImages = @ \cup {url}]

addImages(c) == pushUndo(c, c)

(* applyCrop up to nextImg.src = ... ; a missing layer throws after pushUndo *)
applyCrop(c) == pushUndo(c, c)

(* Exact quotients <<numerator, denominator>> in lowest terms; a division *)
(* by zero gives NaN                                                      *)
RECURSIVE GCD(_, _)
GCD(a, b) == IF b = 0 THEN a ELSE GCD(b, a % b)
Frac(n, d) ==
  IF d = 0 THEN <<NaN, 1>>
  ELSE LET g == GCD(Abs(n), Abs(d)) IN <<n \div g, d \div g>>
FracInt(k) == <<k, 1>>
FracAdd(p, q) == Frac(p[1] * q[2] + q[1] * p[2], p[2] * q[2])
FracMul(p, q) == Frac(p[1] * q[1], p[2] * q[2])
FracDiv(p, k) == Frac(p[1], p[2] * k)

(* The source rectangle of applyCrop, in pixels of L.img (lines 334-336) *)
cropSource(L, b) ==
  LET base == IF L.crop = None THEN Rect(0, 0, L.img.width, L.img.height) ELSE L.crop[1]
  IN [x |-> FracAdd(FracInt(base.x), Frac(b.x * base.w, L.w)),
      y |-> FracAdd(FracInt(base.y), Frac(b.y * base.h, L.h)),
      w |-> Frac(b.w * base.w, L.w),
      h |-> Frac(b.h * base.h, L.h)]

(* off.toDataURL after og.drawImage(L.img, srcX, srcY, srcW, srcH, 0, 0,   *)
(* off.width, off.height) (lines 338-339, 346): a PNG pw x ph that shows   *)
(* the rectangle rect of the raster img                                    *)
CropUrl(img, rect, pw, ph) ==
  [scheme |-> "data", n |-> img.src.n, w |-> pw, h |-> ph, of |-> img.src, rect |-> rect]

(* What a raster shows: the rectangle, in pixels of the file it was first  *)
(* decoded from, that its pixels were drawn from                           *)
RECURSIVE originRegion(_)
originRegion(src) ==
  IF "of" \notin DOMAIN src
    THEN [x |-> FracInt(0), y |-> FracInt(0), w |-> FracInt(src.w), h |-> FracInt(src.h)]
    ELSE LET R == originRegion(src.of)
             kx == FracDiv(R.w, src.of.w)
             ky == FracDiv(R.h, src.of.h)
         IN [x |-> FracAdd(R.x, FracMul(src.rect.x, kx)),
             y |-> FracAdd(R.y, FracMul(src.rect.y, ky)),
             w |-> FracMul(src.rect.w, kx),
             h |-> FracMul(src.rect.h, ky)]

cropRequest(c) ==
  LET L == findById(c.layers, c.selectedLayerId)
      b == c.cropBoxRef[1]
  IN IF L = None THEN None
     ELSE Some([kind |-> "crop", L |-> L[1], b |-> b,
                url |-> CropUrl(L[1].img, cropSource(L[1], b), Max(1, b.w), Max(1, b.h))])

(* nextImg.onload that keeps the layer's display size *)
cropLoadedKeepsSize(s, req) ==
  LET upd(x) == IF x.id # req.L.id THEN x
                ELSE [x EXCEPT !.img = [src |-> req.url, width |-> req.url.w,
                                        height |-> req.url.h],
                               !.crop = None,
                               !.x = req.L.x + req.b.x, !.y = req.L.y + req.b.y]
  IN [s EXCEPT !.layers = [i \in DOMAIN @ |-> upd(@[i])],
               !.cropBoxRef = None, !.cropDragRef = None,
               !.selectedLayerId = NULL, !.tool = "move"]

(* nextImg.onload that leaves the pending crop box in place *)
cropLoadedKeepsBox(s, req) ==
  LET upd(x) == IF x.id # req.L.id THEN x
                ELSE [x EXCEPT !.img = [src |-> req.url, width |-> req.url.w,
                                        height |-> req.url.h],
                               !.crop = None,
                               !.x = req.L.x + req.b.x, !.y = req.L.y + req.b.y,
                               !.w = req.url.w, !.h = req.url.h]
  IN [s EXCEPT !.layers = [i \in DOMAIN @ |-> upd(@[i])],
               !.cropDragRef = None,
               !.selectedLayerId = NULL, !.tool = "move"]

(* nextImg.onload (lines 342-345) *)
cropLoaded(s, req) ==
  LET upd(x) == IF x.id # req.L.id THEN x
                ELSE [x EXCEPT !.img = [src |-> req.url, width |-> req.url.w,
                                        height |-> req.url.h],
                               !.crop = None,
                               !.x = req.L.x + req.b.x, !.y = req.L.y + req.b.y,
                               !.w = req.url.w, !.h = req.url.h]
  IN [s EXCEPT !.layers = [i \in DOMAIN @ |-> upd(@[i])],
               !.cropBoxRef = None, !.cropDragRef = None,
               !.selectedLayerId = NULL, !.tool = "move"]

----------------------------------------------------------------------------
(* Opening a project (lines 140-147): the initialProject text handed to the *)
(* component.  A project text is what JSON.parse makes of it: parses says   *)
(* whether it parses at all, a field that is missing is <<>>.               *)
ProjectLayer ==
  [id |-> 50, x |-> 20, y |-> 20, w |-> 200, h |-> 100, crop |-> None,
   src |-> DataUrl(50, 200, 100)]
ProjectDraw == DrawRec(51, "path", <<V(30, 30), V(40, 40)>>, None, None, FALSE)
ValidProject ==
  [parses |-> TRUE, layers |-> Some(<<ProjectLayer>>), draws |-> Some(<<ProjectDraw>>),
   scale |-> Some(2 * ScaleOne), offset |-> Some(V(5, 5))]
Projects ==
  {ValidProject,
   [ValidProject EXCEPT !.parses = FALSE],
   [ValidProject EXCEPT !.layers = None],
   [ValidProject EXCEPT !.draws = None],
   [ValidProject EXCEPT !.scale = None],
   [ValidProject EXCEPT !.offset = None]}

(* JSON.parse throws on a text that does not parse, and iterating          *)
(* parsed.layers throws when the field is missing (lines 113, 115)         *)
restoreThrows(proj) == ~proj.parses \/ proj.layers = None

(* parsed.draws || [], parsed.scale ?? 1, parsed.offset ?? {x: 0, y: 0}    *)
(* (lines 120-122)                                                         *)
parsedProject(proj) ==
  [layers |-> proj.layers[1],
   draws |-> IF proj.draws = None THEN <<>> ELSE proj.draws[1],
   scale |-> IF proj.scale = None THEN ScaleOne ELSE proj.scale[1],
   offset |-> IF proj.offset = None THEN V(0, 0) ELSE proj.offset[1]]

(* The load effect with an initialProject, in an editor that has neither a *)
(* file nor an initialSrc: the fall-back after a throw does nothing.  The  *)
(* effect's pushUndo snapshots the render c the effect belongs to.         *)
openProject(s, c, proj) ==
  IF restoreThrows(proj) THEN s
  ELSE pushUndo([restoreState(s, parsedProject(proj)) EXCEPT
                   !.undoStack = <<>>, !.redoStack = <<>>], c)

----------------------------------------------------------------------------
(* save (lines 647-663) and renderObj (lines 235-268).  The exported PNG   *)
(* is the sequence of marks drawn onto the export canvas, each with the    *)
(* entity it belongs to.                                                   *)
Mark(op, id) == [op |-> op, id |-> id]

renderObj(D) ==
  (IF D.kind \in {"path", "line", "rect", "ellipse", "polygon", "arrow"}
     THEN <<Mark("shape", D.id)>> ELSE <<>>)
  \o (IF D.selected /\ D.kind \in {"line", "arrow"}
        THEN <<Mark("handles", D.id)>> ELSE <<>>)
  \o (IF D.selected /\ bboxOf(D) # None
        THEN <<Mark("selectionRect", D.id)>> ELSE <<>>)

RECURSIVE renderAll(_)
renderAll(ds) == IF ds = <<>> THEN <<>> ELSE renderObj(Head(ds)) \o renderAll(Tail(ds))

save(c) ==
  [png |-> [i \in DOMAIN c.layers |-> Mark("drawImage", c.layers[i].id)]
             \o renderAll(c.draws),
   projectJson |-> snapshot(c)]

(* The project text that save handed over, as initialProject reads it *)
savedProject(sv) ==
  [parses |-> TRUE, layers |-> Some(sv.projectJson.layers),
   draws |-> Some(sv.projectJson.draws), scale |-> Some(sv.projectJson.scale),
   offset |-> Some(sv.projectJson.offset)]

----------------------------------------------------------------------------
(* History variables (not part of the program) *)
Scene(c) == [layers |-> c.layers, draws |-> c.draws]
(* What the geometry of a scene is: identities, rectangles, crops, sources  *)
(* and points, without the selection flags                                 *)
Geometry(sc) ==
  [layers |-> serializeLayers(sc.layers),
   draws |-> [i \in DOMAIN sc.draws |->
                [id |-> sc.draws[i].id, kind |-> sc.draws[i].kind,
                 points |-> sc.draws[i].points, a |-> sc.draws[i].a,
                 b |-> sc.draws[i].b, eraser |-> sc.draws[i].eraser]]]
NoChk == [kind |-> "none", stage |-> "none", pre |-> Scene(MountState), moved |-> FALSE]
NoUr == [stage |-> "none", snap |-> snapshot(MountState), us |-> <<>>, rs |-> <<>>]
Finals == {"final"}

(* The block of onPointerDown that handles the event *)
downBranch(c, e) ==
  LET p == screenToWorld(c, e.pt)
  IN IF c.panningRef THEN "pan"
     ELSE IF c.tool = "crop" THEN "crop"
     ELSE IF pointerDownResize(c, c, p, e.shiftKey).ret THEN "resize"
     ELSE IF pointerDownEndpoint(c, c, p).ret THEN "endpoint"
     ELSE IF c.tool \in {"pencil", "eraser"} THEN "stroke"
     ELSE IF c.tool \in ShapeTools THEN "shape"
     ELSE IF c.tool = "polygon" THEN "vertex"
     ELSE IF hitTest(c, p).type = "none" THEN "deselect"
     ELSE "move"

(* The branch of onPointerMove that handles the event *)
moveBranch(c) ==
  IF c.panningRef THEN "pan"
  ELSE IF c.tool = "crop" /\ c.cropDragRef # None /\ c.selectedLayerId # NULL THEN "crop"
  ELSE IF c.handleDragRef # None THEN "endpoint"
  ELSE IF c.layerResizeRef # None THEN "resize"
  ELSE IF c.tool \in {"pencil", "eraser"} /\ c.dragStartRef # None THEN "stroke"
  ELSE IF c.dragStartRef # None /\ c.tool \in ShapeTools THEN "shape"
  ELSE IF c.movingRef # None THEN "moving"
  ELSE "none"

(* What a keydown does: a polygon commit, a delete, or the key itself *)
keyBranch(c, k) ==
  IF k = "Enter" /\ c.tool = "polygon" /\ Len(c.polyTemp) >= 3 THEN "commit"
  ELSE IF k = "Delete" /\ (c.selectedDrawId # NULL \/ c.selectedLayerId # NULL) THEN "delete"
  ELSE k

IsUndoEv(name, what) == name = "undoBtn" \/ (name = "key" /\ what = "CtrlZ")
IsRedoEv(name, what) == name = "redoBtn" \/ (name = "key" /\ what = "CtrlY")

chkNext(name, what) ==
  LET start(kind) == [kind |-> kind, stage |-> "active", pre |-> Scene(Cur), moved |-> FALSE]
      single(kind) == [kind |-> kind, stage |-> "done", pre |-> Scene(Cur), moved |-> FALSE]
      active == chk.stage = "active"
      cropping == chk.kind = "crop" /\ chk.stage \in {"first", "one", "second"}
      L == findById(layers, selectedLayerId)
      crop1 == [kind |-> "crop", stage |-> "first", pre |-> Scene(Cur), moved |-> FALSE,
                L |-> L[1], R1 |-> cropBoxRef[1], R2 |-> cropBoxRef[1]]
      panHeld == \/ chk.kind = "pan" /\ chk.stage = "active"
                 \/ chk.kind = "wheel" /\ chk.held
  IN IF name = "wheel" THEN
       [kind |-> "wheel", stage |-> "done", pre |-> Scene(Cur), moved |-> FALSE,
        m |-> what, scale |-> scale, offset |-> offset, held |-> panHeld]
     ELSE IF name = "down" /\ what = "pan" THEN start("pan")
     ELSE IF panHeld /\ name \notin Finals \cup {"down"} THEN
       [kind |-> "pan", stage |-> "active", pre |-> chk.pre, moved |-> FALSE]
     ELSE IF name = "applyCrop" THEN
       IF chk.kind = "crop" /\ chk.stage = "one" /\ selectedLayerId = chk.L.id
         THEN [chk EXCEPT !.stage = "second", !.R2 = cropBoxRef[1]]
         ELSE crop1
     ELSE IF name = "cropLoaded" /\ cropping THEN
       [chk EXCEPT !.stage = IF @ = "first" THEN "one" ELSE IF @ = "second" THEN "two" ELSE @]
     ELSE IF cropping /\ (name = "tool" \/ (name \in {"down", "pmove", "final"} /\ what = "crop"))
       THEN chk
     ELSE IF name = "down" /\ what \in {"resize", "endpoint", "move"} THEN start("gesture")
     ELSE IF name = "down" /\ what \in {"stroke", "shape"} THEN start("draw")
     ELSE IF name = "down" /\ what = "vertex" THEN
       IF active /\ chk.kind = "polygon" /\ Len(polyTemp) > 0 THEN chk ELSE start("polygon")
     ELSE IF name = "pmove" /\ active THEN chk
     ELSE IF name \in Finals /\ active /\ chk.kind = "gesture"
             /\ what \in {"resize", "endpoint", "moving"}
       THEN [chk EXCEPT !.stage = "done",
                        !.moved = Geometry(Scene(Cur)) # Geometry(chk.pre)]
     ELSE IF name \in Finals /\ active /\ chk.kind = "draw"
             /\ what \in {"stroke", "shape"} THEN [chk EXCEPT !.stage = "done"]
     ELSE IF name \in Finals /\ active /\ chk.kind = "polygon" /\ what = "none" THEN chk
     ELSE IF name = "key" /\ what = "commit" THEN
       IF active /\ chk.kind = "polygon" THEN [chk EXCEPT !.stage = "done"]
       ELSE single("polygon")
     ELSE IF name = "key" /\ what = "delete" THEN single("delete")
     ELSE IF name = "clearAll" THEN single("clear")
     ELSE IF IsUndoEv(name, what) /\ chk.stage = "done" THEN [chk EXCEPT !.stage = "undone"]
     ELSE NoChk

(* The last event, as the properties need it: the kind of event, the block  *)
(* of the handler that ran, and whether the history stacks were non-empty   *)
(* when it arrived                                                          *)
evOf(name, what) ==
  LET kind == IF IsUndoEv(name, what) THEN <<"undo", "none">>
              ELSE IF IsRedoEv(name, what) THEN <<"redo", "none">>
              ELSE IF name \in {"down", "pmove", "final"} THEN <<name, what>>
              ELSE IF name = "key" /\ what \in {"delete", "commit", "CtrlShiftZ", "Enter", "Delete",
                                                "Escape"}
                THEN <<name, what>>
              ELSE IF name \in {"project", "loadFailed", "lateLoad"} THEN <<name, what>>
              ELSE IF name \in {"clearAll", "addImages", "applyCrop", "fileLoaded",
                                "addLoaded", "cropLoaded", "wheel", "cancelCrop"}
                THEN <<name, "none">>
              ELSE <<"other", "none">>
  IN [name |-> kind[1], what |-> kind[2], u |-> undoStack # <<>>, r |-> redoStack # <<>>]

urNext(name, what) ==
  IF IsUndoEv(name, what) /\ Len(undoStack) > 0
    THEN [stage |-> "undone", snap |-> snapshot(Cur), us |-> undoStack, rs |-> redoStack]
  ELSE IF IsRedoEv(name, what) /\ ur.stage = "undone" THEN [ur EXCEPT !.stage = "redone"]
  ELSE NoUr

----------------------------------------------------------------------------
(* The layer L after a crop with box b alone: applyCrop and the load of    *)
(* its raster (lines 330-347)                                              *)
cropLayer(L, b) ==
  LET c == [Cur EXCEPT !.layers = <<L>>, !.selectedLayerId = L.id, !.cropBoxRef = Some(b)]
  IN cropLoaded(applyCrop(c), cropRequest(c)[1]).layers[1]

(* An event: the handler's result n becomes the next render's state.  The  *)
(* keydown effect re-runs, capturing the new render, when one of its       *)
(* dependencies changed (line 594).                                        *)
keyDeps(c) == <<c.tool, Len(c.polyTemp), c.selectedDrawId, c.selectedLayerId>>
captured(c) == [layers |-> c.layers, draws |-> c.draws, scale |-> c.scale, offset |-> c.offset]

Commit(n, name, what, pend, cost) ==
  /\ cost.acts <= left.acts /\ cost.verts <= left.verts
  /\ cost.hist <= left.hist /\ cost.tools <= left.tools
  /\ \E m \in {n} :
       /\ layers' = m.layers
       /\ selectedLayerId' = m.selectedLayerId
       /\ draws' = m.draws
       /\ selectedDrawId' = m.selectedDrawId
       /\ tool' = m.tool
       /\ polyTemp' = m.polyTemp
       /\ dragStartRef' = m.dragStartRef
       /\ lastMoveRef' = m.lastMoveRef
       /\ cropBoxRef' = m.cropBoxRef
       /\ cropDragRef' = m.cropDragRef
       /\ movingRef' = m.movingRef
       /\ draft' = m.draft
       /\ handleDragRef' = m.handleDragRef
       /\ layerResizeRef' = m.layerResizeRef
       /\ scale' = m.scale
       /\ offset' = m.offset
       /\ panningRef' = m.panningRef
       /\ panLastRef' = m.panLastRef
       /\ undoStack' = m.undoStack
       /\ redoStack' = m.redoStack
       /\ revokedUrls' = m.revokedUrls
       /\ availableImages' = m.availableImages
       /\ nextId' = m.nextId
       /\ mounted' = m.mounted
       /\ keyClosure' = IF keyDeps(m) # keyDeps(Cur) THEN captured(m) ELSE keyClosure
  /\ pendingLoads' = pend
  /\ ev' = evOf(name, what)
  /\ chk' = chkNext(name, what)
  /\ ur' = urNext(name, what)
  /\ left' = [acts |-> left.acts - cost.acts, verts |-> left.verts - cost.verts,
              hist |-> left.hist - cost.hist, tools |-> left.tools - cost.tools]
  /\ UNCHANGED <<imageEditor, saved>>

(* What an event takes from the session's budget *)
Free == [acts |-> 0, verts |-> 0, hist |-> 0, tools |-> 0]
OneAct == [Free EXCEPT !.acts = 1]
OneVert == [Free EXCEPT !.verts = 1]
OneHist == [Free EXCEPT !.hist = 1]
OneTool == [Free EXCEPT !.tools = 1]

Without(seq, i) == SubSeq(seq, 1, i - 1) \o SubSeq(seq, i + 1, Len(seq))

----------------------------------------------------------------------------
(* ImageEditor (src/unnamed/part_000): the crop tool and the pencil of the *)
(* single-image editor.  The canvas pixels are an opaque value: canvas is  *)
(* the identity of the current content, fresh the next unused identity.    *)
(* devicePixelRatio is 1.                                                  *)
ImageUndoLimit == 40
Near == V(11, 50)
ImagePoints == {Outside, Near, Inside}

ImageEditorMount ==
  [img |-> None, loading |-> TRUE, tool |-> "pencil", cropRect |-> None,
   isCropping |-> FALSE, isDrawing |-> FALSE, last |-> None,
   canvas |-> 0, fresh |-> 1, undoStack |-> <<>>, redoStack |-> <<>>,
   pending |-> None, left |-> MaxActs]

(* im.onload (line 63); the img effect redraws the canvas (line 116) *)
imageLoaded(s) ==
  [s EXCEPT !.img = Some(V(400, 300)), !.loading = FALSE,
            !.canvas = s.fresh, !.fresh = @ + 1]

(* pushUndo (lines 134-140) *)
imagePushUndo(s) ==
  LET pushed == Append(s.undoStack, s.canvas)
  IN [s EXCEPT !.undoStack = IF Len(pushed) > ImageUndoLimit THEN Tail(pushed) ELSE pushed]

normalizeRect(r) ==
  Rect(IF r.w < 0 THEN r.x + r.w ELSE r.x, IF r.h < 0 THEN r.y + r.h ELSE r.y,
       Abs(r.w), Abs(r.h))

(* onPointerDown (lines 260-266) with the crop tool, the pencil or the eraser *)
imagePointerDown(s, p) ==
  IF s.tool = "crop"
    THEN [s EXCEPT !.isCropping = TRUE, !.cropRect = Some(Rect(p.x, p.y, 0, 0))]
    ELSE [imagePushUndo([s EXCEPT !.redoStack = <<>>]) EXCEPT
            !.isDrawing = TRUE, !.last = Some(p)]

(* onPointerMove (lines 267-273) *)
imagePointerMove(s, p) ==
  IF s.tool = "crop" THEN
    IF s.isCropping /\ s.cropRect # None
      THEN [s EXCEPT !.cropRect = Some(Rect(@[1].x, @[1].y, p.x - @[1].x, p.y - @[1].y))]
      ELSE s
  ELSE IF ~s.isDrawing \/ s.last = None THEN s
  ELSE [s EXCEPT !.canvas = s.fresh, !.fresh = @ + 1, !.last = Some(p)]

(* onPointerUp (lines 274-279) *)
imagePointerUp(s) ==
  IF s.tool = "crop" THEN [s EXCEPT !.isCropping = FALSE]
  ELSE [s EXCEPT !.isDrawing = FALSE, !.last = None]

(* applyCrop that crops whatever the size of the rectangle *)
imageApplyCropUnguarded(s) ==
  IF s.cropRect = None THEN s
  ELSE LET n == normalizeRect(s.cropRect[1])
       IN [s EXCEPT !.pending = Some(V(n.w, n.h))]

(* applyCrop (lines 229-256) up to cropped.src = ... *)
imageApplyCrop(s) ==
  IF s.cropRect = None THEN s
  ELSE LET n == normalizeRect(s.cropRect[1])
       IN IF n.w < 2 \/ n.h < 2 THEN [s EXCEPT !.cropRect = None]
          ELSE [s EXCEPT !.pending = Some(V(n.w, n.h))]

(* cropped.onload (lines 247-254) *)
imageCropLoaded(s) ==
  [s EXCEPT !.img = s.pending, !.pending = None, !.cropRect = None,
            !.undoStack = <<>>, !.redoStack = <<>>,
            !.canvas = s.fresh, !.fresh = @ + 1]

imageCancelCrop(s) == [s EXCEPT !.cropRect = None]

----------------------------------------------------------------------------
(* The component after its first render and effects: pend holds the image *)
(* decodes the load effect started                                        *)
Mount(pend, budget) ==
  /\ layers = <<>> /\ selectedLayerId = NULL
  /\ draws = <<>> /\ selectedDrawId = NULL
  /\ tool = "pencil"
  /\ polyTemp = <<>> /\ dragStartRef = None /\ lastMoveRef = None
  /\ cropBoxRef = None /\ cropDragRef = None
  /\ movingRef = None /\ draft = None /\ handleDragRef = None /\ layerResizeRef = None
  /\ scale = ScaleOne /\ offset = V(0, 0)
  /\ panningRef = FALSE /\ panLastRef = V(0, 0)
  /\ undoStack = <<>> /\ redoStack = <<>>
  /\ keyClosure = MountState
  /\ pendingLoads = pend
  /\ revokedUrls = {}
  /\ availableImages = {}
  /\ nextId = 1
  /\ mounted = TRUE
  /\ ev = [name |-> "mount", what |-> "none", u |-> FALSE, r |-> FALSE]
  /\ chk = NoChk
  /\ ur = NoUr
  /\ left = budget
  /\ imageEditor = ImageEditorMount
  /\ saved = None

(* Mounted with a file (lines 148-154) *)
FileLoad(size) == <<[kind |-> "file", url |-> BlobUrl(0, size)]>>
Budget == [acts |-> MaxActs, verts |-> MaxVerts, hist |-> MaxHist, tools |-> MaxTools]
Init == \E size \in FileSizes : Mount(FileLoad(size), Budget)

(* img.onload of the initial file (line 152) *)
InitialImageLoaded ==
  /\ mounted
  /\ \E i \in DOMAIN pendingLoads :
       /\ pendingLoads[i].kind = "file"
       /\ Commit(makeLayerFromImage(Cur, pendingLoads[i].url), "fileLoaded", "none",
                 Without(pendingLoads, i), Free)

OnPointerDown(pts, shifts) ==
  /\ mounted
  /\ \E pt \in pts, shiftKey \in shifts :
       LET e == [pt |-> pt, shiftKey |-> shiftKey]
           br == downBranch(Cur, e)
       IN Commit(onPointerDown(Cur, e), "down", br, pendingLoads,
                 IF br = "vertex" THEN OneVert ELSE OneAct)

(* A stroke is followed for MaxPts points *)
StrokeFull ==
  /\ moveBranch(Cur) = "stroke"
  /\ \E i \in DOMAIN draws : draws[i].id = selectedDrawId /\ Len(draws[i].points) >= MaxPts

OnPointerMove(pts) ==
  /\ mounted
  /\ ~StrokeFull
  /\ \E pt \in pts :
       Commit(onPointerMove(Cur, [pt |-> pt]), "pmove", moveBranch(Cur), pendingLoads,
              IF moveBranch(Cur) = "pan" THEN OneAct ELSE Free)

OnPointerUp ==
  /\ mounted
  /\ Commit(finalizePointer(Cur), "final", finalizeBranch(Cur), pendingLoads, Free)

OnPointerLeave ==
  /\ mounted
  /\ Commit(finalizePointer(Cur), "final", finalizeBranch(Cur), pendingLoads, Free)

OnPointerCancel ==
  /\ mounted
  /\ Commit(finalizePointer(Cur), "final", finalizeBranch(Cur), pendingLoads, Free)

OnKeyDown(keys) ==
  /\ mounted
  /\ \E k \in keys :
       Commit(onKeyDown(Cur, KeyCur, k), "key", keyBranch(Cur, k), pendingLoads,
              IF k \in {"CtrlZ", "CtrlShiftZ", "CtrlY"} THEN OneHist ELSE Free)

(* A key pressed while the editor is shown in the application's modal:     *)
(* the editor's and the modal's window listeners both receive it           *)
OnKeyDownInModal(keys) ==
  /\ mounted
  /\ \E k \in keys :
       Commit(modalOnKey(onKeyDown(Cur, KeyCur, k), k), "key", keyBranch(Cur, k),
              pendingLoads, Free)

OnKeyUp ==
  /\ mounted
  /\ Commit(onKeyUp(Cur, "Space"), "keyup", "Space", pendingLoads, Free)

OnWheel(pts, factors) ==
  /\ mounted
  /\ \E pt \in pts, factor \in factors :
       Commit(onWheel(Cur, [pt |-> pt, factor |-> factor]), "wheel", pt,
              pendingLoads, OneAct)

ClickUndo ==
  /\ mounted
  /\ Commit(undo(Cur, Cur), "undoBtn", "none", pendingLoads, OneHist)

ClickRedo ==
  /\ mounted
  /\ Commit(redo(Cur, Cur), "redoBtn", "none", pendingLoads, OneHist)

ClickClearAll ==
  /\ mounted
  /\ Commit(clearAll(Cur), "clearAll", "none", pendingLoads, OneAct)

ClickTool(tools) ==
  /\ mounted
  /\ \E t \in tools :
       t # tool /\ Commit(toolButton(Cur, t), "tool", "none", pendingLoads, OneTool)

(* The crop buttons are rendered when tool = crop, a layer is selected and *)
(* a crop box exists (line 729)                                            *)
CropButtonsShown == tool = "crop" /\ selectedLayerId # NULL /\ cropBoxRef # None

ClickApplyCrop ==
  /\ mounted
  /\ CropButtonsShown
  /\ \A i \in DOMAIN pendingLoads : pendingLoads[i].kind # "crop"
  /\ Commit(applyCrop(Cur), "applyCrop", "none", pendingLoads \o cropRequest(Cur), Free)

ClickCancelCrop ==
  /\ mounted
  /\ CropButtonsShown
  /\ Commit(cancelCrop(Cur), "cancelCrop", "none", pendingLoads, Free)

(* One file is picked; its decode starts *)
AddImages ==
  /\ mounted
  /\ Cardinality({u \in revokedUrls : u.n > 0})
       + Cardinality({i \in DOMAIN pendingLoads : pendingLoads[i].kind = "add"}) < MaxAdds
  /\ \E size \in AddSizes :
       Commit(addImages(Cur), "addImages", "none",
              Append(pendingLoads, [kind |-> "add", url |-> BlobUrl(nextId, size)]), OneAct)

AddedImageLoaded ==
  /\ mounted
  /\ \E i \in DOMAIN pendingLoads, rx \in RandomShift, ry \in RandomShift :
       /\ pendingLoads[i].kind = "add"
       /\ Commit(addImageLoaded(Cur, pendingLoads[i].url, rx, ry), "addLoaded", "none",
                 Without(pendingLoads, i), Free)

CroppedImageLoaded ==
  /\ mounted
  /\ \E i \in DOMAIN pendingLoads :
       /\ pendingLoads[i].kind = "crop"
       /\ Commit(cropLoaded(Cur, pendingLoads[i]), "cropLoaded", "none",
                 Without(pendingLoads, i), Free)

(* An image fails to decode: its error event fires.  No img.onerror is    *)
(* assigned (lines 150-153, 156-159, 340-346, 628-641), so no code runs   *)
DecodeFailed ==
  /\ mounted
  /\ \E i \in DOMAIN pendingLoads :
       Commit(Cur, "loadFailed", pendingLoads[i].kind, Without(pendingLoads, i), Free)

(* The parent stops rendering the editor.  The effects' cleanups remove   *)
(* the window listeners (line 593); the load effect has no cleanup (line  *)
(* 163), so the decodes it started stay in flight                         *)
Unmount ==
  /\ mounted
  /\ Commit([Cur EXCEPT !.mounted = FALSE], "unmount", "none", pendingLoads, Free)

(* An onload callback that runs after the unmount: React drops the state  *)
(* updates of an unmounted component, the assignments to refs and the     *)
(* calls of URL.revokeObjectURL happen                                    *)
dropSetState(c, n) ==
  [n EXCEPT !.layers = c.layers, !.selectedLayerId = c.selectedLayerId,
            !.draws = c.draws, !.selectedDrawId = c.selectedDrawId,
            !.tool = c.tool, !.polyTemp = c.polyTemp, !.draft = c.draft,
            !.scale = c.scale, !.offset = c.offset]

LoadedAfterUnmount ==
  /\ ~mounted
  /\ \E i \in DOMAIN pendingLoads :
       LET r == pendingLoads[i]
           n == IF r.kind = "file" THEN makeLayerFromImage(Cur, r.url)
                ELSE IF r.kind = "add" THEN addImageLoaded(Cur, r.url, 0, 0)
                ELSE cropLoaded(Cur, r)
       IN Commit(dropSetState(Cur, n), "lateLoad", r.kind, Without(pendingLoads, i), Free)

(* The parent hands the editor an initialProject: the load effect runs     *)
(* (its dependencies, line 163)                                            *)
ProjectOpened ==
  /\ mounted
  /\ \E proj \in Projects :
       Commit(openProject(Cur, Cur, proj), "project",
              IF proj = ValidProject THEN "valid" ELSE "invalid", pendingLoads, OneAct)

(* The parent hands back the project it got from onSave *)
ProjectReopened ==
  /\ mounted
  /\ saved # None
  /\ Commit(openProject(Cur, Cur, savedProject(saved[1])), "project", "saved",
            pendingLoads, OneAct)

(* The Save button (line 741): onSave(png, caption, projectJson) *)
ClickSave ==
  /\ mounted
  /\ saved' = Some(save(Cur))
  /\ ev' = evOf("save", "none")
  /\ chk' = chkNext("save", "none")
  /\ ur' = urNext("save", "none")
  /\ UNCHANGED <<layers, selectedLayerId, draws, selectedDrawId, tool, polyTemp,
                 dragStartRef, lastMoveRef, cropBoxRef, cropDragRef, movingRef, draft,
                 handleDragRef, layerResizeRef, scale, offset, panningRef, panLastRef,
                 undoStack, redoStack, keyClosure, pendingLoads, revokedUrls,
                 availableImages, nextId, mounted, left, imageEditor>>

(* An event of ImageEditor: its handler's result n is the next state; the  *)
(* collage editor is not involved                                          *)
ImageCommit(n, name) ==
  /\ imageEditor' = n
  /\ ev' = [name |-> name, what |-> "none", u |-> FALSE, r |-> FALSE]
  /\ UNCHANGED <<layers, selectedLayerId, draws, selectedDrawId, tool, polyTemp,
                 dragStartRef, lastMoveRef, cropBoxRef, cropDragRef, movingRef, draft,
                 handleDragRef, layerResizeRef, scale, offset, panningRef, panLastRef,
                 undoStack, redoStack, keyClosure, pendingLoads, revokedUrls,
                 availableImages, nextId, mounted, chk, ur, left, saved>>

ImageLoaded ==
  /\ imageEditor.loading
  /\ ImageCommit(imageLoaded(imageEditor), "imageLoaded")

ImageClickTool ==
  \E t \in {"crop", "pencil"} :
    /\ t # imageEditor.tool
    /\ ImageCommit([imageEditor EXCEPT !.tool = t], "imageTool")

ImagePointerDown ==
  /\ imageEditor.left > 0
  /\ \E p \in ImagePoints :
       ImageCommit([imagePointerDown(imageEditor, p) EXCEPT !.left = @ - 1], "imageDown")

ImagePointerMove ==
  /\ imageEditor.isCropping \/ imageEditor.isDrawing
  /\ imageEditor.fresh <= MaxPts + 2
  /\ \E p \in ImagePoints : ImageCommit(imagePointerMove(imageEditor, p), "imageMove")

ImagePointerUp ==
  /\ imageEditor.tool \in {"crop", "pencil", "eraser"}
  /\ ImageCommit(imagePointerUp(imageEditor), "imageUp")

(* The crop buttons are rendered when a crop rectangle exists and the tool *)
(* is crop (line 395)                                                      *)
ImageCropButtonsShown == imageEditor.cropRect # None /\ imageEditor.tool = "crop"

ImageClickApplyCrop ==
  /\ ImageCropButtonsShown
  /\ imageEditor.pending = None
  /\ ImageCommit(imageApplyCrop(imageEditor), "imageApplyCrop")

ImageClickCancelCrop ==
  /\ ImageCropButtonsShown
  /\ ImageCommit(imageCancelCrop(imageEditor), "imageCancelCrop")

ImageCropLoaded ==
  /\ imageEditor.pending # None
  /\ ImageCommit(imageCropLoaded(imageEditor), "imageCropLoaded")

(* The user agent may drop decoded images from its list of available      *)
(* images at any time                                                      *)
ImagesDiscarded ==
  /\ mounted
  /\ availableImages # {}
  /\ Commit([Cur EXCEPT !.availableImages = {}], "discard", "none", pendingLoads, Free)

----------------------------------------------------------------------------
(* Sessions.  Every session mounts the editor and then receives events from *)
(* an alphabet of pointer positions, keys and toolbar buttons; the budget   *)
(* in left bounds its length.                                               *)

(* A file is opened; drawing with the pencil, the keyboard and the history *)
(* buttons                                                                 *)
NextDraw ==
  \/ InitialImageLoaded
  \/ OnPointerDown({Outside, Inside}, {FALSE})
  \/ OnPointerMove({Outside, Inside})
  \/ OnPointerUp
  \/ OnKeyDown({"CtrlZ", "CtrlY", "Delete"})
  \/ ClickUndo
  \/ ClickRedo
  \/ ClickClearAll

SpecDraw == Init /\ [][NextDraw]_vars

(* A file is opened; the layer is moved and resized with the move tool *)
NextMove ==
  \/ InitialImageLoaded
  \/ OnPointerDown({Inside, Corner}, BOOLEAN)
  \/ OnPointerMove({Inside, Corner})
  \/ OnPointerUp
  \/ ClickUndo
  \/ ClickTool({"move"})

SpecMove == Init /\ [][NextMove]_vars

(* A file is opened; pointers go down and up, Space is pressed and         *)
(* released, the tool is changed                                           *)
NextGesture ==
  \/ InitialImageLoaded
  \/ OnPointerDown({Inside, Corner}, {FALSE})
  \/ OnPointerMove({Inside, Corner})
  \/ OnPointerUp
  \/ OnPointerLeave
  \/ OnPointerCancel
  \/ OnKeyDown({"Space"})
  \/ OnKeyUp
  \/ ClickTool({"eraser", "move"})

SpecGesture == Init /\ [][NextGesture]_vars

(* A file is opened; one editing action of any kind, with one undo or redo *)
InitEdit ==
  \E size \in FileSizes :
    Mount(FileLoad(size), [Budget EXCEPT !.acts = EditActs, !.hist = EditHist])

NextEdit ==
  \/ InitialImageLoaded
  \/ OnPointerDown({Inside, Corner}, {FALSE})
  \/ OnPointerMove({Inside, Corner})
  \/ OnPointerUp
  \/ OnKeyDown({"Enter", "Delete"})
  \/ ClickUndo
  \/ ClickRedo
  \/ ClickClearAll
  \/ ClickTool({"line", "polygon", "move", "crop"})
  \/ ClickApplyCrop
  \/ AddImages
  \/ AddedImageLoaded
  \/ CroppedImageLoaded

SpecEdit == InitEdit /\ [][NextEdit]_vars

(* The editor is mounted without a file (all three props are optional,     *)
(* lines 47-49); strokes fill the undo stack past its limit                *)
InitHist == Mount(<<>>, [Budget EXCEPT !.acts = MaxPushes, !.hist = HistOps])

NextHist ==
  \/ OnPointerDown({Inside}, {FALSE})
  \/ OnPointerUp
  \/ ClickUndo
  \/ ClickRedo

SpecHist == InitHist /\ [][NextHist]_vars

(* The editors are mounted without a file, initialSrc or initialProject    *)
InitBlank == Mount(<<>>, Budget)

(* A file is opened; polygons are built click by click and committed with  *)
(* Enter or dropped with Escape                                            *)
InitPoly ==
  \E size \in FileSizes :
    Mount(FileLoad(size), [Budget EXCEPT !.acts = EditActs, !.verts = PolyVerts,
                                         !.hist = EditHist])

NextPoly ==
  \/ InitialImageLoaded
  \/ OnPointerDown({Outside, Inside}, {FALSE})
  \/ OnPointerUp
  \/ OnKeyDown({"Enter", "Escape"})
  \/ ClickUndo
  \/ ClickTool({"polygon"})

SpecPoly == InitPoly /\ [][NextPoly]_vars

(* A file is opened; strokes are drawn and undone while the user agent     *)
(* keeps or discards the decoded file                                      *)
NextRaster ==
  \/ InitialImageLoaded
  \/ ImagesDiscarded
  \/ OnPointerDown({Outside, Inside}, {FALSE})
  \/ OnPointerMove({Outside, Inside})
  \/ OnPointerUp
  \/ ClickUndo
  \/ ClickRedo

SpecRaster == Init /\ [][NextRaster]_vars

(* A file is opened; with the pencil selected the layer is resized, strokes *)
(* are drawn, the view is panned, and the history buttons are used          *)
NextRound ==
  \/ InitialImageLoaded
  \/ OnPointerDown({Inside, Corner}, BOOLEAN)
  \/ OnPointerMove({Inside, Corner})
  \/ OnPointerUp
  \/ OnKeyDown({"Space"})
  \/ OnKeyUp
  \/ ClickUndo
  \/ ClickRedo

SpecRound == Init /\ [][NextRound]_vars

(* A banner file is opened; its layer is selected, moved and resized       *)
InitBanner == \E size \in BannerSizes : Mount(FileLoad(size), Budget)

NextBanner ==
  \/ InitialImageLoaded
  \/ OnPointerDown({BannerInside, BannerCorner}, BOOLEAN)
  \/ OnPointerMove({BannerInside, Inside})
  \/ OnPointerUp
  \/ ClickUndo
  \/ ClickRedo
  \/ ClickTool({"move"})

SpecBanner == InitBanner /\ [][NextBanner]_vars

(* A file is opened; with the crop tool a crop box is made, dragged and    *)
(* applied or cancelled while an image is added                            *)
NextCrop ==
  \/ InitialImageLoaded
  \/ OnPointerDown({Inside, Corner}, {FALSE})
  \/ OnPointerMove({Inside, Corner})
  \/ OnPointerUp
  \/ ClickTool({"crop"})
  \/ ClickApplyCrop
  \/ ClickCancelCrop
  \/ AddImages
  \/ AddedImageLoaded
  \/ CroppedImageLoaded

SpecCrop == Init /\ [][NextCrop]_vars

(* ImageEditor: a file is opened, strokes are drawn, crop rectangles are   *)
(* dragged and applied or cancelled                                        *)
NextImageCrop ==
  \/ ImageLoaded
  \/ ImageClickTool
  \/ ImagePointerDown
  \/ ImagePointerMove
  \/ ImagePointerUp
  \/ ImageClickApplyCrop
  \/ ImageClickCancelCrop
  \/ ImageCropLoaded

SpecImageCrop == InitBlank /\ [][NextImageCrop]_vars

(* A file is opened and its layer is cropped, and cropped again            *)
InitCropTwice ==
  \E size \in FileSizes : Mount(FileLoad(size), [Budget EXCEPT !.tools = CropTools])

NextCropTwice ==
  \/ InitialImageLoaded
  \/ OnPointerDown({TopLeft, Inside, Corner}, {FALSE})
  \/ OnPointerMove({Inside, Mid})
  \/ OnPointerUp
  \/ ClickTool({"crop"})
  \/ ClickApplyCrop
  \/ ClickCancelCrop
  \/ CroppedImageLoaded

SpecCropTwice == InitCropTwice /\ [][NextCropTwice]_vars

(* The editor is mounted without a file; projects are opened, strokes are  *)
(* drawn and undone                                                        *)
NextProject ==
  \/ ProjectOpened
  \/ OnPointerDown({Outside, Inside}, {FALSE})
  \/ OnPointerMove({Outside, Inside})
  \/ OnPointerUp
  \/ ClickUndo
  \/ ClickRedo

SpecProject == InitBlank /\ [][NextProject]_vars

(* The editor is mounted without a file; strokes are drawn, and undone and *)
(* redone with the keyboard and the Undo button                           *)
NextKeys ==
  \/ OnPointerDown({Outside, Inside}, {FALSE})
  \/ OnPointerMove({Outside, Inside})
  \/ OnPointerUp
  \/ OnKeyDown({"CtrlZ", "CtrlShiftZ", "CtrlY"})
  \/ ClickUndo

SpecKeys == InitBlank /\ [][NextKeys]_vars

(* A file is opened; strokes and lines are drawn, entities are selected   *)
(* with the move tool, a crop box is made, and the collage is saved at    *)
(* any moment                                                             *)
NextSave ==
  \/ InitialImageLoaded
  \/ OnPointerDown({Outside, Inside}, {FALSE})
  \/ OnPointerMove({Outside, Inside})
  \/ OnPointerUp
  \/ ClickTool({"line", "move", "crop"})
  \/ ClickSave

SpecSave == Init /\ [][NextSave]_vars

(* A file is opened; rectangles and lines are drawn in either direction,  *)
(* beside the layer and over it                                           *)
NextHit ==
  \/ InitialImageLoaded
  \/ OnPointerDown({Outside, HitCorner, Inside}, {FALSE})
  \/ OnPointerMove({Outside, HitCorner, Inside})
  \/ OnPointerUp
  \/ ClickTool({"rect", "line", "move"})

SpecHit == Init /\ [][NextHit]_vars

(* The editor is mounted without a file; the view is zoomed with the     *)
(* wheel and panned with Space held, strokes are drawn, undone and        *)
(* redone, and the project is saved and reopened                          *)
InitZoom == Mount(<<>>, [Budget EXCEPT !.acts = ZoomActs, !.hist = ZoomHist])

NextZoom ==
  \/ OnWheel(WheelPoints, WheelFactors)
  \/ OnKeyDown({"Space"})
  \/ OnKeyUp
  \/ OnPointerDown(WheelPoints, {FALSE})
  \/ OnPointerMove(WheelPoints)
  \/ OnPointerUp
  \/ ClickUndo
  \/ ClickRedo
  \/ ClickSave
  \/ ProjectReopened

SpecZoom == InitZoom /\ [][NextZoom]_vars

(* Images are opened, added and cropped; a decode can fail, and the editor *)
(* can be unmounted while decodes are in flight                            *)
NextLoad ==
  \/ InitialImageLoaded
  \/ AddImages
  \/ AddedImageLoaded
  \/ OnPointerDown({Inside}, {FALSE})
  \/ OnPointerUp
  \/ ClickTool({"crop"})
  \/ ClickApplyCrop
  \/ CroppedImageLoaded
  \/ DecodeFailed
  \/ Unmount
  \/ LoadedAfterUnmount

SpecLoad == Init /\ [][NextLoad]_vars

(* A file is opened; its layer is resized by its north-west and south-east *)
(* handles, with and without Shift, to points inside the layer, on its     *)
(* south-east corner and beyond its north-west corner                      *)
NextResize ==
  \/ InitialImageLoaded
  \/ OnPointerDown({TopLeft, Corner}, BOOLEAN)
  \/ OnPointerMove({Outside, Inside, Corner})
  \/ OnPointerUp

SpecResize == Init /\ [][NextResize]_vars

(* The application opens a file in the editor inside its modal; polygons  *)
(* are built click by click, committed with Enter or dropped with Escape  *)
NextModal ==
  \/ InitialImageLoaded
  \/ OnPointerDown({Outside, Inside}, {FALSE})
  \/ OnPointerUp
  \/ OnKeyDownInModal({"Enter", "Escape"})
  \/ ClickTool({"polygon"})

SpecModal == InitPoly /\ [][NextModal]_vars

(* A file is opened; a stroke is drawn or an image is added, and with the  *)
(* move tool the layer or the stroke is dragged and brought back           *)
MovePoints == {Outside, Inside, Mid}

NextDrag ==
  \/ InitialImageLoaded
  \/ OnPointerDown({Outside, Inside}, {FALSE})
  \/ OnPointerMove(MovePoints)
  \/ OnPointerUp
  \/ ClickTool({"move"})
  \/ AddImages
  \/ AddedImageLoaded

SpecDrag == Init /\ [][NextDrag]_vars

----------------------------------------------------------------------------
(* Properties *)

(* C1: in every reachable state at most one of selectedLayerId and          *)
(* selectedDrawId is non-null.                                              *)
SelectionExclusive == ~(selectedLayerId # NULL /\ selectedDrawId # NULL)

(* C2: the selected flags agree with the selected ids: an entity is flagged *)
(* exactly when its id is selectedLayerId or selectedDrawId.                *)
FlagsAgreeWithIds ==
  /\ \A i \in DOMAIN layers : layers[i].selected <=> layers[i].id = selectedLayerId
  /\ \A i \in DOMAIN draws : draws[i].selected <=> draws[i].id = selectedDrawId

(* C3: after a completed move, resize or endpoint gesture that changed the  *)
(* geometry, a single undo restores the geometry of every layer and draw    *)
(* object as it was before the gesture's pointer-down.                      *)
UndoRevertsGesture ==
  (chk.kind = "gesture" /\ chk.stage = "undone" /\ chk.moved)
    => Geometry(Scene(Cur)) = Geometry(chk.pre)

(* C4: after a completed action that creates or removes entities (stroke,   *)
(* shape, polygon commit, delete, clear-all) a single undo restores the     *)
(* layers and draws as they were before the action began.                   *)
UndoRevertsEdit ==
  (chk.kind \in {"draw", "polygon", "delete", "clear"} /\ chk.stage = "undone")
    => Geometry(Scene(Cur)) = Geometry(chk.pre)

(* C5: undo followed by redo restores the snapshot taken before the undo    *)
(* and the contents of both history stacks.                                 *)
UndoRedoInverse ==
  ur.stage = "redone"
    => snapshot(Cur) = ur.snap /\ undoStack = ur.us /\ redoStack = ur.rs

(* C6: the undo stack never holds more than 60 snapshots, and a checkpoint  *)
(* pushed onto a full stack removes the oldest snapshot and keeps the order *)
(* of the others.                                                           *)
IsCheckpoint == ev'.name = "down" /\ ev'.what = "stroke"
Mutating(e) ==
  \/ e.name = "down" /\ e.what \in {"stroke", "shape", "vertex"}
  \/ e.name = "final" /\ e.what \in {"endpoint", "resize", "moving"}
  \/ e.name = "key" /\ e.what \in {"commit", "delete"}
  \/ e.name \in {"clearAll", "addImages", "applyCrop"}
EditorState ==
  <<layers, selectedLayerId, draws, selectedDrawId, scale, offset, undoStack, redoStack>>
MutationClearsRedo ==
  /\ [](Mutating(ev) => redoStack = <<>>)
  /\ [][(Mutating(ev) /\ ev'.name = "redo") => UNCHANGED EditorState]_vars

(* C7 is exercised: a mutating action arrived while the redo stack held an  *)
(* entry                                                                    *)
MutationAfterUndo == Mutating(ev) /\ ev.r

(* C8: undo with an empty undo stack and redo with an empty redo stack      *)
(* change neither layers, draws, scale, offset, selection nor the stacks.   *)
EmptyUndoRedoNoOp ==
  [][((ev'.name = "undo" /\ undoStack = <<>>) \/ (ev'.name = "redo" /\ redoStack = <<>>))
       => UNCHANGED EditorState]_vars

(* C8 is exercised: undo arrived on an empty undo stack while the redo     *)
(* stack held an entry                                                      *)
UndoOnEmptyStack ==
  /\ ev.name = "undo" /\ ~ev.u
  /\ redoStack # <<>>

(* C9: at most one interaction state is active: the pan flag, dragStartRef, *)
(* handleDragRef, layerResizeRef, cropDragRef, movingRef.                   *)
ActiveInteractions ==
  {k \in {"pan", "drag", "handle", "resize", "crop", "moving"} :
     \/ k = "pan" /\ panningRef
     \/ k = "drag" /\ dragStartRef # None
     \/ k = "handle" /\ handleDragRef # None
     \/ k = "resize" /\ layerResizeRef # None
     \/ k = "crop" /\ cropDragRef # None
     \/ k = "moving" /\ movingRef # None}
AtMostOneInteraction == Cardinality(ActiveInteractions) <= 1

(* C10: after pointer-up, pointer-leave or pointer-cancel the controller is *)
(* Idle: no drag origin, endpoint drag, layer resize, crop drag or entity   *)
(* move remains active.                                                     *)
Idle ==
  /\ dragStartRef = None /\ handleDragRef = None /\ layerResizeRef = None
  /\ cropDragRef = None /\ movingRef = None
IdleAfterFinal == ev.name = "final" => Idle

(* C11: with the polygon tool, Enter with fewer than 3 accumulated points   *)
(* changes neither the draws, the accumulator nor the history; Enter with   *)
(* 3 or more appends exactly one polygon whose points are the accumulated   *)
(* points, which are the clicked points in click order, and empties the     *)
(* accumulator.                                                             *)
EnterPressed == ev'.name = "key" /\ ev'.what \in {"Enter", "commit"} /\ tool = "polygon"
PolygonCommitGuard ==
  /\ [][(EnterPressed /\ Len(polyTemp) < 3)
          => UNCHANGED <<draws, polyTemp, undoStack, redoStack>>]_vars
  /\ [][(EnterPressed /\ Len(polyTemp) >= 3)
          => /\ draws' = Append(draws, DrawRec(nextId, "polygon", polyTemp, None, None, FALSE))
             /\ polyTemp' = <<>>]_vars
  /\ [][(ev'.name = "down" /\ ev'.what = "vertex")
          => \E pt \in Points : polyTemp' = Append(polyTemp, screenToWorld(Cur, pt))]_vars

(* C11 is exercised: Enter committed a polygon of four clicked points, not  *)
(* all the same                                                             *)
PolygonCommitted ==
  /\ ev.name = "key" /\ ev.what = "commit"
  /\ draws # <<>>
  /\ draws[Len(draws)].kind = "polygon"
  /\ draws[Len(draws)].points \in {<<Outside, Inside, Inside, Outside>>,
                                    <<Inside, Outside, Outside, Inside>>}

(* C12: while a polygon is being built a checkpoint is pushed on the first  *)
(* vertex click only: a vertex click on a non-empty accumulator leaves the  *)
(* undo stack unchanged.                                                    *)
CheckpointOnFirstVertexOnly ==
  [][(ev'.name = "down" /\ ev'.what = "vertex" /\ polyTemp # <<>>)
       => undoStack' = undoStack]_vars

(* C13: every draw object of the scene is a valid variant: its kind is one  *)
(* of path, line, rect, ellipse, polygon, arrow; a path has at least one    *)
(* point, a polygon at least three, and a line, rect, ellipse or arrow has  *)
(* both endpoints a and b.                                                  *)
ValidDraw(d) ==
  /\ d.kind \in {"path", "line", "rect", "ellipse", "polygon", "arrow"}
  /\ d.kind = "path" => Len(d.points) >= 1
  /\ d.kind = "polygon" => Len(d.points) >= 3
  /\ d.kind \in ShapeTools => d.a # None /\ d.b # None
DrawsAreValid == \A i \in DOMAIN draws : ValidDraw(draws[i])

(* C14: every layer raster referenced by a snapshot still decodes when the  *)
(* snapshot is restored: every layer of the scene, restored ones included,  *)
(* holds a decoded image.                                                   *)
RastersDecodable ==
  \A i \in DOMAIN layers : layers[i].img.width > 0 /\ layers[i].img.height > 0

(* C15: restoring a snapshot taken of a state gives the same layers (order, *)
(* id, x, y, w, h, crop, raster reference), the same draw objects, scale    *)
(* and offset, and a snapshot of the restored state equals the original;    *)
(* an undo or redo leaves the editor in the state of the snapshot it        *)
(* popped.                                                                  *)
Restored == restoreState(Cur, snapshot(Cur))
InvalidRestoreAborts ==
  [][(ev'.name = "project" /\ ev'.what = "invalid")
       => UNCHANGED <<layers, draws, scale, offset, selectedLayerId, selectedDrawId>>]_vars

(* C17: every layer of the scene is at least 10 wide and 10 high, whatever  *)
(* the size of the decoded image, and after any resize, crop, undo or redo. *)
LayersAtLeastMinSize ==
  \A i \in DOMAIN layers : layers[i].w >= MinSize /\ layers[i].h >= MinSize

(* C18: whenever the crop tool targets a layer (tool = crop, a layer is     *)
(* selected and a crop box exists) the crop box lies inside the layer's     *)
(* display rectangle and is at least 10 x 10.                               *)
CropBoxInsideLayer ==
  (tool = "crop" /\ cropBoxRef # None /\ findById(layers, selectedLayerId) # None)
    => LET L == findById(layers, selectedLayerId)[1]
           b == cropBoxRef[1]
       IN /\ 0 <= b.x /\ 0 <= b.y
          /\ b.x + b.w <= L.w /\ b.y + b.h <= L.h
          /\ b.w >= MinSize /\ b.h >= MinSize

(* C19: applying a crop whose rectangle is less than 2 wide or 2 high is a  *)
(* no-op cancel: the raster, the canvas and both history stacks are         *)
(* unchanged, no crop is started, and the pending crop rectangle is         *)
(* cleared.                                                                 *)
DegenerateCropDiscarded ==
  [][(/\ ev'.name = "imageApplyCrop"
      /\ imageEditor.cropRect # None
      /\ \/ normalizeRect(imageEditor.cropRect[1]).w < 2
         \/ normalizeRect(imageEditor.cropRect[1]).h < 2)
       => imageEditor' = [imageEditor EXCEPT !.cropRect = None]]_vars

(* C19 is exercised: apply-crop discarded a degenerate rectangle while the  *)
(* undo stack held a stroke's checkpoint                                    *)
DegenerateCropApplied ==
  /\ ev.name = "imageApplyCrop"
  /\ imageEditor.cropRect = None
  /\ imageEditor.img # None
  /\ imageEditor.undoStack # <<>>

----------------------------------------------------------------------------
(* C20: cropping a layer with box R1 and then cropping the result with box *)
(* R2, given in the display space of the first result, selects the same    *)
(* region of the original file as one crop of the layer with the composed  *)
(* box (R1.x + R2.x, R1.y + R2.y, R2.w, R2.h), computed with               *)
(* srcX = crop.x + (b.x / layer.w) * crop.w and srcW = (b.w / layer.w) *   *)
(* crop.w, and the two results have the same raster size and the same      *)
(* place on the canvas.                                                    *)
ComposedBox(R1, R2) == Rect(R1.x + R2.x, R1.y + R2.y, R2.w, R2.h)
Placement(L) == <<L.x, L.y, L.w, L.h, L.crop, L.img.width, L.img.height>>
CroppedTwice == chk.kind = "crop" /\ chk.stage = "two"
CropComposition ==
  CroppedTwice =>
    LET two == findById(layers, chk.L.id)
        one == cropLayer(chk.L, ComposedBox(chk.R1, chk.R2))
    IN /\ two # None
       /\ originRegion(two[1].img.src) = originRegion(one.img.src)
       /\ Placement(two[1]) = Placement(one)

(* A layer was cropped twice, both times away from its top-left corner and *)
(* to less than its size                                                   *)
CroppedTwiceInside ==
  /\ CroppedTwice
  /\ chk.R1.x > 0 /\ chk.R1.y > 0 /\ chk.R2.x > 0 /\ chk.R2.y > 0
  /\ chk.R2.w < chk.R1.w /\ chk.R1.w < chk.L.w
  /\ chk.L.img.width # chk.L.w

----------------------------------------------------------------------------
(* C21: when a raster decode fails (initial load, added image or crop      *)
(* replacement) no layer is created or replaced, layers, draws, scale and  *)
(* offset are as they were, and the failure is surfaced: the editor is     *)
(* left in a state that differs from the one before the failure.           *)
DecodeFailureSurfaced ==
  [][ev'.name = "loadFailed" =>
       /\ layers' = layers /\ draws' = draws /\ scale' = scale /\ offset' = offset
       /\ Cur' # Cur]_vars

(* C22: a decode-completion callback that fires after the editor was       *)
(* unmounted changes neither layers, selection, tool, crop state nor the   *)
(* undo and redo stacks.                                                   *)
NoMutationAfterUnmount ==
  [][~mounted =>
       /\ layers' = layers /\ draws' = draws
       /\ selectedLayerId' = selectedLayerId /\ selectedDrawId' = selectedDrawId
       /\ tool' = tool
       /\ cropBoxRef' = cropBoxRef /\ cropDragRef' = cropDragRef
       /\ undoStack' = undoStack /\ redoStack' = redoStack]_vars

----------------------------------------------------------------------------
(* C23: the world point under the cursor m before a wheel zoom, (m -       *)
(* offset) / scale, projects to m again after it: world * scale' + offset' *)
(* = m, also when the new scale was clamped at 0.25 or at 4.               *)
Project(m, o, s, s2, o2) ==
  FracAdd(FracMul(Frac((m - o) * ScaleOne, s), Frac(s2, ScaleOne)), FracInt(o2))
ZoomAnchor ==
  (ev.name = "wheel" /\ chk.kind = "wheel") =>
    /\ Project(chk.m.x, chk.offset.x, chk.scale, scale, offset.x) = FracInt(chk.m.x)
    /\ Project(chk.m.y, chk.offset.y, chk.scale, scale, offset.y) = FracInt(chk.m.y)

(* A wheel zoom away from the origin, in a view that was already moved,    *)
(* asked for more than the largest scale and was clamped to it             *)
ZoomedToLimit ==
  /\ ev.name = "wheel" /\ chk.kind = "wheel"
  /\ chk.m # V(0, 0) /\ chk.offset # V(0, 0)
  /\ 2 * chk.scale < ScaleMax /\ scale = ScaleMax
  /\ offset # chk.offset

----------------------------------------------------------------------------
(* C24: the viewport scale satisfies 0.25 <= scale <= 4 in every reachable *)
(* state, after wheel zooms, undo and redo, and reopening a saved project. *)
ScaleInRange == ScaleMin <= scale /\ scale <= ScaleMax

(* The view was zoomed to the largest scale and then a project saved at a  *)
(* smaller scale was reopened                                              *)
ReopenedAfterZoom ==
  /\ ev.name = "project" /\ ev.what = "saved"
  /\ Len(undoStack) = 1 /\ undoStack[1].scale = ScaleMax
  /\ scale < ScaleMax

----------------------------------------------------------------------------
(* C25: hitTest(p) returns the draw object latest in insertion order whose *)
(* bounding box (the least and greatest coordinates of its points, or of a *)
(* and b in either order, boundary included) contains p; with no such draw *)
(* object the layer latest in insertion order whose rectangle contains p;  *)
(* otherwise nothing.  For a rect with a = (10,10) and b = (50,40),        *)
(* (30,25) hits it and (5,5) does not.                                     *)
Corners(D) ==
  IF D.kind \in {"path", "polygon"} THEN {D.points[i] : i \in DOMAIN D.points}
  ELSE IF D.kind \in {"line", "arrow", "rect", "ellipse"} THEN {D.a[1], D.b[1]}
  ELSE {}
Encloses(D, p) ==
  /\ Corners(D) # {}
  /\ \E q \in Corners(D) : q.x <= p.x
  /\ \E q \in Corners(D) : q.x >= p.x
  /\ \E q \in Corners(D) : q.y <= p.y
  /\ \E q \in Corners(D) : q.y >= p.y
LayerEncloses(L, p) == L.x <= p.x /\ p.x <= L.x + L.w /\ L.y <= p.y /\ p.y <= L.y + L.h
Latest(S) == CHOOSE i \in S : \A j \in S : j <= i
Expected(p) ==
  LET ds == {i \in DOMAIN draws : Encloses(draws[i], p)}
      ls == {i \in DOMAIN layers : LayerEncloses(layers[i], p)}
  IN IF ds # {} THEN [type |-> "draw", id |-> draws[Latest(ds)].id]
     ELSE IF ls # {} THEN [type |-> "layer", id |-> layers[Latest(ls)].id]
     ELSE NoHit
HitTestTopmost == \A p \in HitProbes : hitTest(Cur, p) = Expected(p)

(* A rectangle drawn from (50,40) back to (10,10) lies under a later draw  *)
(* object that reaches over the layer: (30,25) and (80,80) hit the later   *)
(* one, (5,5) hits nothing, (200,200) hits the layer                       *)
HitOverlapping ==
  /\ Len(draws) = 2 /\ Len(layers) = 1
  /\ draws[1].kind = "rect" /\ draws[1].a = Some(HitCorner) /\ draws[1].b = Some(Outside)
  /\ hitTest(Cur, V(30, 25)) = [type |-> "draw", id |-> draws[2].id]
  /\ hitTest(Cur, V(80, 80)) = [type |-> "draw", id |-> draws[2].id]
  /\ hitTest(Cur, V(5, 5)) = NoHit
  /\ hitTest(Cur, V(200, 200)) = [type |-> "layer", id |-> layers[1].id]

----------------------------------------------------------------------------
(* C26: Delete or Backspace with an entity selected removes exactly that   *)
(* entity, leaves every other layer and draw object as it was, clears the  *)
(* selection and pushes exactly one checkpoint, which holds the scene      *)
(* before the deletion; with nothing selected the key changes neither the  *)
(* scene nor the undo and redo stacks.                                     *)
DeletePressed == ev'.name = "key" /\ ev'.what \in {"delete", "Delete"}
DeleteRemovesSelected ==
  [][DeletePressed =>
       IF selectedDrawId = NULL /\ selectedLayerId = NULL
         THEN UNCHANGED <<layers, draws, undoStack, redoStack>>
         ELSE /\ draws' = SelectSeq(draws, LAMBDA d : d.id # selectedDrawId)
              /\ layers' = SelectSeq(layers, LAMBDA L : L.id # selectedLayerId)
              /\ selectedDrawId' = NULL /\ selectedLayerId' = NULL
              /\ undoStack' = Append(undoStack, snapshot(Cur))]_vars

----------------------------------------------------------------------------
(* C27: platform-modifier+Shift+Z performs exactly one redo and no undo,   *)
(* the same as platform-modifier+Y: the scene, the view and both stacks    *)
(* after it are those that redo leaves, whether or not the undo stack is   *)
(* empty.                                                                  *)
RedoShortcutRedoes ==
  [][(ev'.name = "key" /\ ev'.what = "CtrlShiftZ") =>
       LET r == onKeyDown(Cur, KeyCur, "CtrlY")
       IN /\ undoStack' = r.undoStack /\ redoStack' = r.redoStack
          /\ layers' = r.layers /\ draws' = r.draws
          /\ scale' = r.scale /\ offset' = r.offset]_vars

----------------------------------------------------------------------------
(* C28: the flattened export holds only the layers' images and the draw    *)
(* objects' own strokes and fills: whatever is selected, drafted or being  *)
(* cropped when save runs, no selection rectangle, handle, draft preview   *)
(* or crop overlay is drawn onto the export canvas.                        *)
ExportWithoutChrome ==
  saved # None =>
    \A i \in DOMAIN saved[1].png : saved[1].png[i].op \in {"drawImage", "shape"}

----------------------------------------------------------------------------
(* C29: panning and wheel zoom push no checkpoint and leave the scene      *)
(* alone: a pan move changes only offset, a wheel event changes only scale *)
(* and offset; layers, draws, the selection and both stacks stay as they   *)
(* were.                                                                   *)
PanMoved == ev'.name = "pmove" /\ ev'.what = "pan"
PanZoomFrame ==
  [][/\ (PanMoved \/ ev'.name = "wheel") =>
          UNCHANGED <<layers, draws, selectedLayerId, selectedDrawId, tool, polyTemp,
                      draft, undoStack, redoStack>>
     /\ PanMoved => scale' = scale]_vars

(* A pan move shifted the view of a scene that holds a stroke and a        *)
(* checkpoint                                                              *)
PannedOverStroke ==
  /\ ev.name = "pmove" /\ ev.what = "pan"
  /\ offset # V(0, 0)
  /\ draws # <<>> /\ undoStack # <<>> /\ selectedDrawId # NULL

----------------------------------------------------------------------------
(* C30: with the Space pan flag set, offset changes only on pointer-moves  *)
(* that follow a pointer-down of the same gesture, and each such move adds *)
(* exactly the current pointer position minus the previous one of that     *)
(* gesture; a pointer-move with Space held and no pointer-down before it   *)
(* leaves offset unchanged.                                                *)
PanGesture ==
  \/ chk.kind = "pan" /\ chk.stage = "active"
  \/ chk.kind = "wheel" /\ chk.held
PanFollowsPointer ==
  [][/\ PanMoved =>
          IF PanGesture
            THEN offset' = V(offset.x + (panLastRef'.x - panLastRef.x),
                             offset.y + (panLastRef'.y - panLastRef.y))
            ELSE offset' = offset
     /\ (panningRef /\ ev'.name \in {"down", "final"}) => offset' = offset]_vars

----------------------------------------------------------------------------
(* C31: while a shape is drafted (line, rect, ellipse or arrow tool) a     *)
(* pointer-move changes only the draft and leaves layers and draws         *)
(* unchanged; the draft is never an element of draws or of a snapshot; on  *)
(* pointer-up exactly one draw object is appended, whose kind is the       *)
(* active tool and whose a and b are the drag origin and the last pointer  *)
(* position, and the draft becomes null.                                   *)
NoDraftIn(ds) == \A i \in DOMAIN ds : ds[i].id # DraftId
ShapeDraftCommitted ==
  /\ [](/\ NoDraftIn(draws)
        /\ \A i \in DOMAIN undoStack : NoDraftIn(undoStack[i].draws)
        /\ \A i \in DOMAIN redoStack : NoDraftIn(redoStack[i].draws))
  /\ [][(ev'.name = "pmove" /\ ev'.what = "shape")
          => UNCHANGED <<layers, draws, undoStack, redoStack>>]_vars
  /\ [][(ev'.name = "final" /\ ev'.what = "shape")
          => /\ draws' = Append(draws, DrawRec(nextId, tool, <<>>, dragStartRef,
                                               lastMoveRef, FALSE))
             /\ draft' = None]_vars

----------------------------------------------------------------------------
(* C32: during a layer resize by handle nw, ne, se or sw, after every      *)
(* pointer-move the layer is at least 10 wide and 10 high and the corner   *)
(* opposite the dragged handle is where it was in the rectangle recorded   *)
(* at pointer-down, also when the cursor is dragged past the opposite      *)
(* corner and the size is held at the minimum.                             *)
ResizeMoved == ev.name = "pmove" /\ ev.what = "resize" /\ layerResizeRef # None
OppositeCorner(r, handle) ==
  V(IF handle \in {"nw", "sw"} THEN r.x + r.w ELSE r.x,
    IF handle \in {"nw", "ne"} THEN r.y + r.h ELSE r.y)
ResizeKeepsOppositeCorner ==
  ResizeMoved =>
    LET r == layerResizeRef[1]
    IN \A i \in DOMAIN layers :
         layers[i].id = r.layerId =>
           /\ layers[i].w >= MinSize /\ layers[i].h >= MinSize
           /\ OppositeCorner(layers[i], r.handle) = OppositeCorner(r.orig, r.handle)

----------------------------------------------------------------------------
(* C33: during a layer resize with the aspect lock held at pointer-down,   *)
(* after every pointer-move the layer's w / h equals the w / h of the      *)
(* rectangle recorded at pointer-down, also when one dimension reaches the *)
(* 10-unit minimum.  Sizes are whole numbers here, so the two quotients    *)
(* are compared up to the rounding of the derived side: |w * orig.h - h *  *)
(* orig.w| is less than the longer side of the original.                   *)
SameRatio(L, orig) == Abs(L.w * orig.h - L.h * orig.w) < Max(orig.w, orig.h)
AspectLockKeepsRatio ==
  (ResizeMoved /\ layerResizeRef[1].keepRatio) =>
    \A i \in DOMAIN layers :
      layers[i].id = layerResizeRef[1].layerId => SameRatio(layers[i], layerResizeRef[1].orig)

----------------------------------------------------------------------------
(* C34: while an entity is moved, after each pointer-move at world point p *)
(* the moved entity's geometry equals its geometry at pointer-down         *)
(* translated by (p - start): every point of a path or polygon, both       *)
(* endpoints of a line, rect, ellipse or arrow, or a layer's x, y with w,  *)
(* h unchanged; the number of points is preserved, every other entity is   *)
(* unchanged, and moving the pointer back to start restores the original   *)
(* geometry.  The entity and its geometry at pointer-down are the ones the *)
(* pointer-down hit.                                                       *)
DrawGeom(o) == <<o.id, o.kind, o.points, o.a, o.b>>
LayerGeom(L) == <<L.id, L.x, L.y, L.w, L.h>>
Translated(pt, d) == V(pt.x + d.x, pt.y + d.y)
TranslatedDraw(o, d) ==
  <<o.id, o.kind, [i \in DOMAIN o.points |-> Translated(o.points[i], d)],
    IF o.a = None THEN None ELSE Some(Translated(o.a[1], d)),
    IF o.b = None THEN None ELSE Some(Translated(o.b[1], d))>>
TranslatedLayer(L, d) == <<L.id, L.x + d.x, L.y + d.y, L.w, L.h>>
MoveFollows(pt) ==
  LET p == screenToWorld(Cur, pt)
      m == movingRef[1]
      d == V(p.x - m.start.x, p.y - m.start.y)
  IN /\ DOMAIN draws' = DOMAIN draws /\ DOMAIN layers' = DOMAIN layers
     /\ \A i \in DOMAIN draws :
          DrawGeom(draws'[i]) =
            IF m.origDraw # None /\ draws[i].id = m.origDraw[1].id
              THEN TranslatedDraw(m.origDraw[1], d) ELSE DrawGeom(draws[i])
     /\ \A i \in DOMAIN layers :
          LayerGeom(layers'[i]) =
            IF m.origLayer # None /\ layers[i].id = m.origLayer[1].id
              THEN TranslatedLayer(m.origLayer[1], d) ELSE LayerGeom(layers[i])
EntityMoveTranslates ==
  /\ [][(ev'.name = "down" /\ ev'.what = "move")
          => \E pt \in {Outside, Inside} :
               LET hit == hitTest(Cur, screenToWorld(Cur, pt))
               IN /\ movingRef'[1].start = screenToWorld(Cur, pt)
                  /\ movingRef'[1].origDraw =
                       IF hit.type = "draw" THEN findById(draws, hit.id) ELSE None
                  /\ movingRef'[1].origLayer =
                       IF hit.type = "layer" THEN findById(layers, hit.id) ELSE None]_vars
  /\ [][(ev'.name = "pmove" /\ ev'.what = "moving")
          => \A pt \in MovePoints :
               Cur' = onPointerMove(Cur, [pt |-> pt]) => MoveFollows(pt)]_vars

----------------------------------------------------------------------------
(* C35: when the entity targeted by an active endpoint-handle drag, layer  *)
(* resize or entity move is removed while the gesture is in progress (by   *)
(* Delete or Backspace, undo or redo), the pointer-moves that follow and   *)
(* the final pointer-up change neither layers, draws nor the undo and redo *)
(* stacks.                                                                 *)
Has(seq, id) == \E i \in DOMAIN seq : seq[i].id = id
TargetRemoved ==
  \/ handleDragRef # None /\ ~Has(draws, handleDragRef[1].drawId)
  \/ layerResizeRef # None /\ ~Has(layers, layerResizeRef[1].layerId)
  \/ /\ movingRef # None
     /\ \/ movingRef[1].origDraw # None /\ ~Has(draws, movingRef[1].origDraw[1].id)
        \/ movingRef[1].origLayer # None /\ ~Has(layers, movingRef[1].origLayer[1].id)
RemovedTargetEndsGesture ==
  [][(TargetRemoved /\ ev'.name \in {"pmove", "final"})
       => UNCHANGED <<layers, draws, undoStack, redoStack>>]_vars

----------------------------------------------------------------------------
(* C36: when an applied crop with box b on layer L completes, L keeps its  *)
(* id and its position in the layer order and gets the display rectangle   *)
(* x = L.x + b.x, y = L.y + b.y with w and h the dimensions of the newly   *)
(* produced raster, its crop field is cleared, the pending crop box is     *)
(* cleared, and every other layer and every draw object is unchanged;      *)
(* dragging the crop box and cancelling the crop change neither layers,    *)
(* draws nor the history stacks.                                           *)
CropInFlight == {i \in DOMAIN pendingLoads : pendingLoads[i].kind = "crop"}
CropCompleted(req) ==
  /\ DOMAIN layers' = DOMAIN layers
  /\ \A i \in DOMAIN layers :
       IF layers[i].id = req.L.id
         THEN /\ layers'[i].id = req.L.id
              /\ layers'[i].x = req.L.x + req.b.x /\ layers'[i].y = req.L.y + req.b.y
              /\ layers'[i].w = layers'[i].img.width /\ layers'[i].h = layers'[i].img.height
              /\ layers'[i].img.src = req.url
              /\ layers'[i].img.width = Max(1, req.b.w)
              /\ layers'[i].img.height = Max(1, req.b.h)
              /\ layers'[i].crop = None
         ELSE layers'[i] = layers[i]
  /\ draws' = draws
  /\ cropBoxRef' = None
CropApplied ==
  /\ [][ev'.name = "cropLoaded"
          => \E i \in CropInFlight :
               /\ pendingLoads' = Without(pendingLoads, i)
               /\ CropCompleted(pendingLoads[i])]_vars
  /\ [][(\/ ev'.name \in {"pmove", "final"} /\ ev'.what = "crop"
         \/ ev'.name = "cancelCrop")
          => UNCHANGED <<layers, draws, undoStack, redoStack>>]_vars

(* A crop by the north-west handle completed in a scene that holds a       *)
(* stroke: the layer moved right and down and shrank                       *)
CropMovedLayer ==
  /\ ev.name = "cropLoaded"
  /\ draws # <<>>
  /\ Len(layers) = 1 /\ layers[1].x > 72 /\ layers[1].y > 54
  /\ layers[1].w < 336 /\ layers[1].w = layers[1].img.width
  /\ cropBoxRef = None

----------------------------------------------------------------------------
(* C37: with the editor open inside the application's modal and the        *)
(* polygon tool active with one or more accumulated points, Escape         *)
(* discards the accumulated points without creating a draw object, and the *)
(* editor stays open with its layers and draws intact.                     *)
EscapeKeepsEditorOpen ==
  [][(ev'.name = "key" /\ ev'.what = "Escape" /\ tool = "polygon" /\ polyTemp # <<>>)
       => /\ polyTemp' = <<>>
          /\ draws' = draws /\ layers' = layers
          /\ mounted']_vars

----------------------------------------------------------------------------
(* C38: in every reachable state a non-null selectedDrawId is the id of a  *)
(* draw object currently in draws and a non-null selectedLayerId is the id *)
(* of a layer currently in layers (also after clear-all, Delete, undo,     *)
(* redo and crop apply).                                                   *)
SelectionValid ==
  /\ selectedDrawId # NULL => Has(draws, selectedDrawId)
  /\ selectedLayerId # NULL => Has(layers, selectedLayerId)

----------------------------------------------------------------------------
(* C39: add-images takes one checkpoint before any decode starts and a     *)
(* layer is appended only when its decode completes; when an undo is       *)
(* performed after add-images was requested, the scene contains no layer   *)
(* of that batch afterwards, even when a decode of the batch completes     *)
(* after the undo.                                                         *)
AddPending ==
  {pendingLoads[i].url : i \in {j \in DOMAIN pendingLoads : pendingLoads[j].kind = "add"}}

FromBatch(ls, urls) == \E i \in DOMAIN ls : ls[i].img.src \in urls

UndoDropsAddedBatch ==
  /\ [][ev'.name = "addImages"
          => /\ undoStack' = pushUndo(Cur, Cur).undoStack
             /\ layers' = layers
             /\ ~FromBatch(layers', AddPending')]_vars
  /\ [][(ev.name = "undo" /\ AddPending # {})
          => ~FromBatch(layers, AddPending)]_vars
  /\ [][(ev.name = "undo" /\ ev'.name = "addLoaded")
          => ~FromBatch(layers', AddPending)]_vars

----------------------------------------------------------------------------
(* C40: immediately after the initial image finishes decoding the scene    *)
(* has exactly one layer and no draw objects, the redo stack is empty and  *)
(* the undo stack holds exactly one snapshot, the snapshot of the scene    *)
(* just loaded (it contains the loaded layer), so that an undo issued      *)
(* before any edit leaves the loaded layer in the scene.                   *)
InitialLoadCheckpoint ==
  /\ [](ev.name = "fileLoaded"
          => /\ Len(layers) = 1 /\ draws = <<>>
             /\ redoStack = <<>>
             /\ undoStack = <<snapshot(Cur)>>)
  /\ [][(ev.name = "fileLoaded" /\ ev'.name = "undo")
          => Has(layers', layers[1].id)]_vars

====
